---------------------------- MODULE Spec2Model ----------------------------
(***************************************************************************)
(* A model of argon2rs (bryant/argon2rs): parameter validation, the slice   *)
(* schedule of Argon2::hash_impl with one worker per lane, the reference    *)
(* index computation index_alpha, and the PHC string codec of the Verifier. *)
(*                                                                         *)
(* Numbers.  TLC integers are 32-bit signed, the program's are u32 and u64. *)
(* A u64 that may exceed 2^31-1 (8*lanes, kib as u64) is a little-endian    *)
(* sequence of base-256 limbs ("wide" value, W...); a u32 that may exceed  *)
(* it (J1, J2) is a pair of 16-bit halves.                                  *)
(*                                                                         *)
(* Abstractions.  BLAKE2b is an external primitive: B2 is a stand-in digest *)
(* that depends on every input byte and on the output length.  A Block is   *)
(* abstracted to a 16-bit digest (its first BLOCK_MODEL_BYTES bytes), and   *)
(* the P sweeps of g to one fixed bijection on that digest (p_sweep);       *)
(* everything around them (XOR structure, which blocks are read and         *)
(* written, in which order) is translated from the source.                  *)
(***************************************************************************)
EXTENDS Integers, Sequences, FiniteSets, TLC

\* "let x = v; F(x)": v is evaluated before the rest, as a statement
\* sequence is; it keeps the evaluation of nested calls and loops shallow
Bind(v, F(_)) == IF v = v THEN F(v) ELSE F(v)

(***************************************************************************)
(* Wide (multi-limb) unsigned arithmetic                                    *)
(***************************************************************************)
RECURSIVE Limbs(_, _)
Limbs(n, k) == IF k = 0 THEN <<>> ELSE <<n % 256>> \o Limbs(n \div 256, k - 1)

RECURSIVE WValue(_)
WValue(w) == IF w = <<>> THEN 0 ELSE w[1] + 256 * WValue(Tail(w))

\* w is zero from limb k+1 on, i.e. the value fits k limbs
WFits(w, k) == \A i \in DOMAIN w : i > k => w[i] = 0

RECURSIVE WCarry(_, _)
WCarry(cols, carry) ==
    IF cols = <<>> THEN <<>>
    ELSE LET t == cols[1] + carry
         IN  <<t % 256>> \o WCarry(Tail(cols), t \div 256)

RECURSIVE WColSum(_, _, _, _)
WColSum(a, b, k, i) ==
    IF i > Len(a) THEN 0
    ELSE (IF k - i + 1 \in DOMAIN b THEN a[i] * b[k - i + 1] ELSE 0)
         + WColSum(a, b, k, i + 1)

\* the full product, Len(a)+Len(b) limbs: it cannot overflow
WMul(a, b) ==
    WCarry([k \in 1..(Len(a) + Len(b)) |-> WColSum(a, b, k, 1)], 0)

RECURSIVE WLess(_, _)
\* a < b for two wide values of the same length
WLess(a, b) ==
    IF a = <<>> THEN FALSE
    ELSE LET n == Len(a)
         IN  IF a[n] # b[n] THEN a[n] < b[n]
             ELSE WLess(SubSeq(a, 1, n - 1), SubSeq(b, 1, n - 1))

\* a ^ b on w bits, w a power of two: the low and the high half of the bits
RECURSIVE XorW(_, _, _)
XorW(a, b, w) ==
    IF a = 0 THEN b
    ELSE IF b = 0 THEN a
    ELSE IF w = 1 THEN 0
    ELSE XorW(a % 2^(w \div 2), b % 2^(w \div 2), w \div 2)
         + 2^(w \div 2) * XorW(a \div 2^(w \div 2), b \div 2^(w \div 2), w \div 2)

\* a ^ b for a, b < 2^16
Xor(a, b) == XorW(a, b, 16)

(***************************************************************************)
(* A u32 that may exceed 2^31-1 (J1, J2) is the pair <<low 16 bits, high 16 *)
(* bits>>.  The two 64-bit products of index_alpha are computed on these     *)
(* halves, exactly, without leaving TLC's integer range.                    *)
(***************************************************************************)
Half == 65536

U32(lo, hi) == <<lo, hi>>

\* a * b for a, b < 2^16, as <<low 16 bits, high 16 bits>>
Mul16(a, b) ==
    LET t1 == (a \div 256) * b
        t0 == (a % 256) * b
    IN  <<((t1 % 256) * 256 + t0) % Half, (t1 + t0 \div 256) \div 256>>

\* j % m for a u32 pair j and 0 < m < 2^15
U32Mod(j, m) == ((j[2] % m) * (Half % m) + j[1]) % m

\* (j * j) >> 32 as a u32 pair: the product is computed in 64 bits
SqHi32(j) ==
    LET hh == Mul16(j[2], j[2])
        hl == Mul16(j[2], j[1])
        ll == Mul16(j[1], j[1])
        c  == (2 * hl[1] + ll[2]) \div Half
        lo == hh[1] + 2 * hl[2] + c
    IN  <<lo % Half, hh[2] + lo \div Half>>

\* (r * x) >> 32 for 0 <= r < 2^31 and a u32 pair x: below r, so an integer
MulHi32(r, x) ==
    LET rl == r % Half
        rh == r \div Half
        hh == Mul16(rh, x[2])
        hl == Mul16(rh, x[1])
        lh == Mul16(rl, x[2])
        ll == Mul16(rl, x[1])
    IN  hh[2] * Half + hh[1] + hl[2] + lh[2]
        + (hl[1] + lh[1] + ll[2]) \div Half

(***************************************************************************)
(* Program constants                                                        *)
(***************************************************************************)
ARGON2_VERSION == 16
DEF_B2HASH_LEN == 64
SLICES_PER_LANE == 4
ARGON2_BLOCK_BYTES == 1024
PASSES == 3
KIB == 4096
LANES == 1
LENGTH == 64
Argon2d == 0
Argon2i == 1
Variants == {Argon2d, Argon2i}

\* how many leading bytes of a 1024-byte Block the model keeps
BLOCK_MODEL_BYTES == 2
BlockMod == 256 * 256

(***************************************************************************)
(* Bytes, BLAKE2b stand-in, H' and H0                                       *)
(***************************************************************************)
as32le(k) == Limbs(k, 4)

len32(t) == as32le(Len(t))

\* the digest state after absorbing bytes[lo..hi]; every byte and its
\* position count (divide and conquer keeps the evaluation shallow)
RECURSIVE B2Fold(_, _, _)
B2Fold(bytes, lo, hi) ==
    IF lo > hi THEN 1
    ELSE IF lo = hi THEN (bytes[lo] * 257 + lo * 7 + 1) % 65521
    ELSE LET mid == (lo + hi) \div 2
         IN  (B2Fold(bytes, lo, mid) * 131 + B2Fold(bytes, mid + 1, hi) * 3 + 1)
             % 65521

\* Blake2b::new(outlen); update(bytes); finalize(): outlen bytes
B2Out(d, outlen) ==
    [i \in 1..outlen |-> (((d + 31 * i) % 65521) * 173 + (d \div 256) + i) % 256]

B2(bytes, outlen) ==
    B2Out((B2Fold(bytes, 1, Len(bytes)) * 37 + outlen) % 65521, outlen)

\* the write offset moved by a whole digest
wr_next_whole(wr_at) == wr_at + DEF_B2HASH_LEN

\* wr_at += DEF_B2HASH_LEN / 2
wr_next(wr_at) == wr_at + DEF_B2HASH_LEN \div 2

RECURSIVE h_prime_loop(_, _, _, _)
h_prime_loop(outlen, out, tmp, wr_at) ==
    IF outlen - wr_at > DEF_B2HASH_LEN
    THEN LET t == B2(tmp, DEF_B2HASH_LEN)
         IN  h_prime_loop(outlen, SubSeq(out, 1, wr_at) \o t, t,
                          wr_next(wr_at))
    ELSE SubSeq(out, 1, wr_at) \o B2(tmp, outlen - wr_at)

\* the bytes h_prime writes to a buffer of outlen bytes
h_prime(outlen, input) ==
    IF outlen <= DEF_B2HASH_LEN
    THEN B2(as32le(outlen) \o input, outlen)
    ELSE LET tmp == B2(as32le(outlen) \o input, DEF_B2HASH_LEN)
         IN  h_prime_loop(outlen, tmp, tmp, 32)

\* the first n <= 32 bytes h_prime leaves in a buffer of outlen bytes: for
\* outlen > 64 they are written once, out[0..64] = tmp, and the later writes
\* start at offset 32 or above
h_prime_head(outlen, input, n) ==
    SubSeq(B2(as32le(outlen) \o input,
              IF outlen <= DEF_B2HASH_LEN THEN outlen ELSE DEF_B2HASH_LEN), 1, n)

\* the 72-byte buffer: 64 digest bytes and 8 zero bytes for the two counters
h0(lanes, hash_length, memory_kib, passes, version, variant, p, s, k, x) ==
    B2(as32le(lanes) \o as32le(hash_length) \o as32le(memory_kib)
         \o as32le(passes) \o as32le(version) \o as32le(variant)
         \o len32(p) \o p \o len32(s) \o s \o len32(k) \o k \o len32(x) \o x,
       DEF_B2HASH_LEN)
    \o <<0, 0, 0, 0, 0, 0, 0, 0>>

(***************************************************************************)
(* Blocks: a Block is the little-endian value of its first                  *)
(* BLOCK_MODEL_BYTES bytes                                                  *)
(***************************************************************************)
zero == 0

block_of_u8(bytes) == bytes[1] + 256 * bytes[2]

as_u8(b) == <<b % 256, b \div 256>>

\* (low half, high half) of the first word of a block, each widened from a
\* byte to a u32 (the byte repeated) so that J1 spans the u32 range
split_u64(n) ==
    LET lo == n % 256
        hi == n \div 256
    IN  <<U32(lo * 257, lo * 257), U32(hi * 257, hi * 257)>>

\* stand-in for p_row over the 8 rows and p_col over the 8 columns
p_sweep(b) == (b * 2053 + 13849) % BlockMod

\* dest = lhs ^ rhs; p sweeps; dest ^= lhs ^ rhs.  dest is assigned.
g(lhs, rhs) ==
    LET d == Xor(lhs, rhs)
    IN  Xor(p_sweep(d), d)

g_two(src) ==
    LET d   == Xor(p_sweep(src), src)
        tmp == d
    IN  Xor(p_sweep(d), tmp)

RECURSIVE xor_all(_)
xor_all(blks) == IF blks = <<>> THEN zero ELSE Xor(blks[1], xor_all(Tail(blks)))

\* the i-th u64 of a block (as_u64(b)[i]); word 0 is the digest itself
block_word(b, i) == IF i = 0 THEN b ELSE (b * 31 + i * 7919 + 5) % BlockMod

\* the digest of the argument block of Gen2i, whose first seven u64 are args
RECURSIVE arg_block(_)
arg_block(args) ==
    IF args = <<>> THEN 40503
    ELSE (arg_block(Tail(args)) * 251 + args[1] + 1) % BlockMod

(***************************************************************************)
(* Argon2::new, Argon2::default                                             *)
(***************************************************************************)
U64(n) == Limbs(n, 8)

\* 2^32 as a u64
TwoTo32 == <<0, 0, 0, 0, 1, 0, 0, 0>>

\* 8 * lanes in 32 bits, then widened: the product wraps around at 2^32
MinKiBOf32(lanes) ==
    SubSeq(WMul(U64(8), U64(lanes)), 1, 4) \o <<0, 0, 0, 0>>

\* 8 * lanes as u64
MinKiBOf(lanes) == SubSeq(WMul(U64(8), U64(lanes)), 1, 8)

\* a lane length that uses every KiB of a lane, without rounding down to 4
lanelen_unaligned(kib, lanes) == kib \div lanes

\* lanelen: kib / (4 * lanes) * 4, evaluated as kib / 4 / lanes * 4, the same
\* number: 4 * lanes fits a u32 for every lanes < 2^30 but reaches 2^31
lanelen_of(kib, lanes) == ((kib \div 4) \div lanes) * 4

Argon2_new(passes, lanes, kib, variant) ==
    IF passes < 1 THEN [ok |-> FALSE, err |-> <<"TooFewPasses">>]
    ELSE IF lanes < 1 THEN [ok |-> FALSE, err |-> <<"TooFewLanes">>]
    ELSE IF WLess(U64(kib), MinKiBOf(lanes))
         THEN [ok |-> FALSE, err |-> <<"MinKiB", MinKiBOf(lanes)>>]
    ELSE [ok |-> TRUE, passes |-> passes, lanes |-> lanes,
          lanelen |-> lanelen_of(kib, lanes), kib |-> kib,
          variant |-> variant]

\* Argon2::new(defaults::PASSES, defaults::LANES, defaults::LANES, v).ok().unwrap()
\* unwrap of None panics
Argon2_default(v) ==
    LET r == Argon2_new(PASSES, LANES, LANES, v)
    IN  IF r.ok THEN r ELSE [ok |-> FALSE, err |-> <<"panic">>]

(***************************************************************************)
(* index_alpha and the coordinates of fill_block                            *)
(***************************************************************************)
\* a window that does not tell the own lane from the others: every lane is
\* given the window of the current lane, current slice included
alpha_r_own(pass, lane, slice, lanes, sliceidx, slicelen, j2) ==
    LET lanelen == slicelen * 4
    IN  IF pass = 0 THEN slice * slicelen + sliceidx - 1
        ELSE lanelen - slicelen + sliceidx - 1

\* a window that, after pass 0, spans the whole of another lane
alpha_r_wide(pass, lane, slice, lanes, sliceidx, slicelen, j2) ==
    LET lanelen == slicelen * 4
        same    == U32Mod(j2, lanes) = lane
        first   == IF sliceidx = 0 THEN 1 ELSE 0
    IN  IF pass = 0 /\ slice = 0 THEN sliceidx - 1
        ELSE IF pass = 0 /\ ~same THEN slice * slicelen - first
        ELSE IF pass = 0 THEN slice * slicelen + sliceidx - 1
        ELSE IF ~same THEN lanelen - first
        ELSE lanelen - slicelen + sliceidx - 1

\* the window size r; a value below 0 stands for a u32 subtraction that
\* underflowed (a panic in a debug build, a wrap-around in a release build)
alpha_r(pass, lane, slice, lanes, sliceidx, slicelen, j2) ==
    LET lanelen == slicelen * 4
        same    == U32Mod(j2, lanes) = lane
        first   == IF sliceidx = 0 THEN 1 ELSE 0
    IN  IF pass = 0 /\ slice = 0 THEN sliceidx - 1
        ELSE IF pass = 0 /\ ~same THEN slice * slicelen - first
        ELSE IF pass = 0 THEN slice * slicelen + sliceidx - 1
        ELSE IF ~same THEN lanelen - slicelen - first
        ELSE lanelen - slicelen + sliceidx - 1

\* r_ * (j1_ * j1_ >> 32) >> 32
alpha_skew(r, j1) ==
    IF r <= 0 THEN 0 ELSE Bind(SqHi32(j1), LAMBDA x : MulHi32(r, x))

\* a relative position counted from r_ instead of r_ - 1
alpha_relpos_r(r, j1) == r - alpha_skew(r, j1)

\* relpos = r_ - 1 - (r_ * (j1_ * j1_ >> 32) >> 32); below 0: underflow
alpha_relpos(r, j1) == r - 1 - alpha_skew(r, j1)

index_alpha(pass, lane, slice, lanes, sliceidx, slicelen, j1, j2) ==
    LET lanelen == slicelen * 4
        r       == alpha_r(pass, lane, slice, lanes, sliceidx, slicelen, j2)
        relpos  == alpha_relpos(r, j1)
    IN  IF pass = 0 \/ slice = 3 THEN relpos % lanelen
        ELSE (slicelen * (slice + 1) + relpos) % lanelen

\* a predecessor that does not wrap around at column 0
prev_nowrap(a, n) == IF n > 0 THEN n - 1 ELSE 0

prev(a, n) == IF n > 0 THEN n - 1 ELSE a.lanelen - 1

\* the three coordinates fill_block hands to get3
fill_coords(a, pass, lane, slice, idx, j1, j2) ==
    Bind(index_alpha(pass, lane, slice, a.lanes, idx,
                     a.lanelen \div SLICES_PER_LANE, j1, j2),
         LAMBDA z :
           LET slicelen == a.lanelen \div SLICES_PER_LANE
               zth == IF pass = 0 /\ slice = 0 THEN <<lane, z>>
                      ELSE <<U32Mod(j2, a.lanes), z>>
               cur == <<lane, slice * slicelen + idx>>
           IN  [cur |-> cur, pre |-> <<lane, prev(a, cur[2])>>, ref |-> zth])

\* Matrix::get3: assert!(wr != rd0 && wr != rd1)
get3_ok(c) == c.cur # c.pre /\ c.cur # c.ref

\* Matrix indexing: row < lanes && col < lanelen
in_matrix(a, rc) == rc[1] \in 0..(a.lanes - 1) /\ rc[2] \in 0..(a.lanelen - 1)

(***************************************************************************)
(* Gen2i, the index stream of Argon2i                                       *)
(***************************************************************************)
PER_KIB_U64 == ARGON2_BLOCK_BYTES \div 8

\* arg[3].0 += 1; g_two(&mut pseudos, &arg)
Gen2i_more(gen) ==
    LET arg == [gen.arg EXCEPT ![7] = @ + 1]
    IN  [arg |-> arg, pseudos |-> g_two(arg_block(arg)), idx |-> gen.idx]

Gen2i_new(start_at, pass, lane, slice, totblocks, totpasses) ==
    Gen2i_more([arg |-> <<pass, lane, slice, totblocks, totpasses, Argon2i, 0>>,
                pseudos |-> zero, idx |-> start_at])

\* [rv |-> (j1, j2), gen |-> the generator afterwards]
Gen2i_nextj(gen) ==
    LET rv  == split_u64(block_word(gen.pseudos, gen.idx))
        idx == (gen.idx + 1) % PER_KIB_U64
        g1  == [gen EXCEPT !.idx = idx]
    IN  [rv |-> rv, gen |-> IF idx = 0 THEN Gen2i_more(g1) ELSE g1]

(***************************************************************************)
(* Filling: the matrix is a function from (lane, column) to Block           *)
(***************************************************************************)
Matrix_new(lanes, lanelen) ==
    [rc \in (0..(lanes - 1)) \X (0..(lanelen - 1)) |-> zero]

\* fill_first_slice: the block seeded at column i (0 or 1) of a lane
seed_block(h0buf, lane, i) ==
    block_of_u8(h_prime_head(ARGON2_BLOCK_BYTES,
                             SubSeq(h0buf, 1, 64) \o as32le(i) \o as32le(lane),
                             BLOCK_MODEL_BYTES))

\* the (j1, j2) of one iteration of fill_slice and the generator afterwards
slice_j(a, blks, gen, lane, slice, idx) ==
    LET slicelen == a.lanelen \div SLICES_PER_LANE
    IN  IF a.variant = Argon2i
        THEN Gen2i_nextj(gen)
        ELSE [rv  |-> split_u64(block_word(
                          blks[<<lane, prev(a, slice * slicelen + idx)>>], 0)),
              gen |-> gen]

\* g(refblk, rd, refblk): the result lands in the reference block
fill_block_at_ref(a, blks, pass, lane, slice, idx, j1, j2) ==
    Bind(fill_coords(a, pass, lane, slice, idx, j1, j2),
         LAMBDA c : [blks EXCEPT ![c.ref] = g(blks[c.pre], blks[c.ref])])

\* fill_block: g(wr, rd, refblk) on the three blocks of get3
fill_block(a, blks, pass, lane, slice, idx, j1, j2) ==
    Bind(fill_coords(a, pass, lane, slice, idx, j1, j2),
         LAMBDA c : [blks EXCEPT ![c.cur] = g(blks[c.pre], blks[c.ref])])

\* fill_slice run to completion by one worker, from idx on
RECURSIVE fill_slice_from(_, _, _, _, _, _, _)
fill_slice_from(a, blks, gen, pass, lane, slice, idx) ==
    IF idx >= a.lanelen \div SLICES_PER_LANE THEN blks
    ELSE Bind(slice_j(a, blks, gen, lane, slice, idx), LAMBDA j :
           Bind(fill_block(a, blks, pass, lane, slice, idx, j.rv[1], j.rv[2]),
                LAMBDA nb :
                  fill_slice_from(a, nb, j.gen, pass, lane, slice, idx + 1)))

fill_slice(a, blks, pass, lane, slice, offset) ==
    fill_slice_from(a, blks,
        Gen2i_new(offset, pass, lane, slice, a.lanes * a.lanelen, a.passes),
        pass, lane, slice, offset)

fill_first_slice(a, blks, h0buf, lane) ==
    fill_slice(a,
        [blks EXCEPT ![<<lane, 0>>] = seed_block(h0buf, lane, 0),
                     ![<<lane, 1>>] = seed_block(h0buf, lane, 1)],
        0, lane, 0, 2)

\* blocks.col(c): the blocks of column c, lane 0 first
Matrix_col(a, blks, c) == [i \in 1..a.lanes |-> blks[<<i - 1, c>>]]

\* the tag: h_prime(out, as_u8(xor_all(blocks.col(lanelen - 1))))
tag_of(a, blks, outlen) ==
    h_prime(outlen, as_u8(xor_all(Matrix_col(a, blks, a.lanelen - 1))))

(***************************************************************************)
(* The sequential execution: in every slice the lanes 0..L-1 are filled one *)
(* after the other (the worker pool that maps lanes in a plain loop)        *)
(***************************************************************************)
RECURSIVE seq_slice(_, _, _, _, _, _)
seq_slice(a, blks, h0buf, pass, slice, lane) ==
    IF lane >= a.lanes THEN blks
    ELSE Bind(IF pass = 0 /\ slice = 0
              THEN fill_first_slice(a, blks, h0buf, lane)
              ELSE fill_slice(a, blks, pass, lane, slice, 0),
              LAMBDA nb : seq_slice(a, nb, h0buf, pass, slice, lane + 1))

RECURSIVE seq_pass(_, _, _, _, _)
seq_pass(a, blks, h0buf, pass, slice) ==
    IF slice >= SLICES_PER_LANE THEN blks
    ELSE Bind(seq_slice(a, blks, h0buf, pass, slice, 0),
              LAMBDA nb : seq_pass(a, nb, h0buf, pass, slice + 1))

\* the matrix after passes 0..p of the sequential execution
RECURSIVE seq_matrix(_, _, _)
seq_matrix(a, h0buf, p) ==
    Bind(IF p = 0 THEN Matrix_new(a.lanes, a.lanelen)
         ELSE seq_matrix(a, h0buf, p - 1),
         LAMBDA b : seq_pass(a, b, h0buf, p, 0))

\* Argon2::hash run sequentially: the bytes written to out
hash(a, outlen, p, s, k, x) ==
    Bind(h0(a.lanes, outlen, a.kib, a.passes, ARGON2_VERSION, a.variant,
            p, s, k, x),
         LAMBDA h0buf :
           Bind(seq_matrix(a, h0buf, a.passes - 1),
                LAMBDA m : tag_of(a, m, outlen)))

\* argon2i_simple / argon2d_simple: the tag of defaults::LENGTH bytes, or the
\* panic of Argon2::default
argon2_simple(v, password, salt) ==
    LET a2 == Argon2_default(v)
    IN  IF a2.ok
        THEN [ok |-> TRUE, tag |-> hash(a2, LENGTH, password, salt, <<>>, <<>>)]
        ELSE [ok |-> FALSE, err |-> <<"panic">>]

(***************************************************************************)
(* verifier.rs: unpadded base64                                             *)
(***************************************************************************)
\* b"ABCDEFGHIJKLMNOPQRSTUVWXYZabcdefghijklmnopqrstuvwxyz0123456789+/"
LUT64 ==
    [i \in 1..64 |-> IF i <= 26 THEN 64 + i
                     ELSE IF i <= 52 THEN 70 + i
                     ELSE IF i <= 62 THEN i - 5
                     ELSE IF i = 63 THEN 43 ELSE 47]

\* LUT64[n as usize & 0x3f]
lut(n) == LUT64[(n % 64) + 1]

None == [some |-> FALSE]
Some(v) == [some |-> TRUE, v |-> v]

delut(c) ==
    IF c = 43 THEN Some(62)
    ELSE IF c = 47 THEN Some(63)
    ELSE IF 65 <= c /\ c <= 90 THEN Some(c - 65)
    ELSE IF 97 <= c /\ c <= 122 THEN Some(c - 71)
    ELSE IF 48 <= c /\ c <= 57 THEN Some(c + 4)
    ELSE None

\* u8 shifts: the bits shifted out are lost
Shl8(x, k) == (x * 2^k) % 256
Shr8(x, k) == x \div 2^k

\* a | b on w bits, w a power of two
RECURSIVE OrW(_, _, _)
OrW(a, b, w) ==
    IF a = 0 THEN b
    ELSE IF b = 0 THEN a
    ELSE IF w = 1 THEN 1
    ELSE OrW(a % 2^(w \div 2), b % 2^(w \div 2), w \div 2)
         + 2^(w \div 2) * OrW(a \div 2^(w \div 2), b \div 2^(w \div 2), w \div 2)

\* a | b for two u8
Or8(a, b) == OrW(a, b, 8)

quad(n) ==
    LET b == Or8(Shr8(n[2], 4), Shl8(n[1], 4))
        c == Or8(Shr8(n[3], 6), Shl8(n[2], 2))
    IN  <<lut(Shr8(n[1], 2)), lut(b), lut(c), lut(n[3])>>

triplet(n) ==
    LET a == delut(n[1])
        b == delut(n[2])
        c == delut(n[3])
        d == delut(n[4])
    IN  IF ~a.some \/ ~b.some \/ ~c.some \/ ~d.some THEN None
        ELSE Some(<<Or8(Shl8(a.v, 2), Shr8(b.v, 4)),
                    Or8(Shl8(b.v, 4), Shr8(c.v, 2)),
                    Or8(Shl8(c.v, 6), d.v)>>)

\* the while loop of base64_no_pad over the 3-byte groups lo..hi (group k is
\* bytes[3k..3k+3]): the quads in order, split in halves to keep the
\* evaluation shallow
RECURSIVE base64_groups(_, _, _)
base64_groups(bytes, lo, hi) ==
    IF lo > hi THEN <<>>
    ELSE IF lo = hi THEN quad(SubSeq(bytes, 3 * lo + 1, 3 * lo + 3))
    ELSE base64_groups(bytes, lo, (lo + hi) \div 2)
         \o base64_groups(bytes, (lo + hi) \div 2 + 1, hi)

\* what base64_no_pad appends after the loop stopped at offset pos
base64_tail(bytes, pos) ==
    IF Len(bytes) - pos = 1
    THEN <<lut(Shr8(bytes[pos + 1], 2)), lut(Shl8(bytes[pos + 1] % 4, 4))>>
    ELSE IF Len(bytes) - pos = 2
    THEN SubSeq(quad(<<bytes[pos + 1], bytes[pos + 2], 0>>), 1, 3)
    ELSE <<>>

base64_no_pad(bytes) ==
    base64_groups(bytes, 0, Len(bytes) \div 3 - 1)
    \o base64_tail(bytes, 3 * (Len(bytes) \div 3))

\* rv extended by the next decoded piece; maybe! returns None at the first
\* byte outside the alphabet
maybe_extend(rv, piece) ==
    IF ~rv.some \/ ~piece.some THEN None ELSE Some(rv.v \o piece.v)

\* the while loop of debase64_no_pad over the 4-byte groups lo..hi
RECURSIVE debase64_groups(_, _, _)
debase64_groups(bytes, lo, hi) ==
    IF lo > hi THEN Some(<<>>)
    ELSE IF lo = hi THEN triplet(SubSeq(bytes, 4 * lo + 1, 4 * lo + 4))
    ELSE maybe_extend(debase64_groups(bytes, lo, (lo + hi) \div 2),
                      debase64_groups(bytes, (lo + hi) \div 2 + 1, hi))

\* a << 2 | b >> 4
debase64_two(a, b) ==
    IF ~a.some \/ ~b.some THEN None
    ELSE Some(<<Or8(Shl8(a.v, 2), Shr8(b.v, 4))>>)

\* a << 2 | b >> 4, b << 4 | c >> 2
debase64_three(a, b, c) ==
    IF ~a.some \/ ~b.some \/ ~c.some THEN None
    ELSE Some(<<Or8(Shl8(a.v, 2), Shr8(b.v, 4)),
                Or8(Shl8(b.v, 4), Shr8(c.v, 2))>>)

\* what debase64_no_pad decodes after the loop stopped at offset pos
debase64_tail(bytes, pos) ==
    IF Len(bytes) - pos = 2
    THEN debase64_two(delut(bytes[pos + 1]), delut(bytes[pos + 2]))
    ELSE IF Len(bytes) - pos = 3
    THEN debase64_three(delut(bytes[pos + 1]), delut(bytes[pos + 2]),
                        delut(bytes[pos + 3]))
    ELSE Some(<<>>)

debase64_no_pad(bytes) ==
    IF Len(bytes) % 4 # 1 /\ Len(bytes) > 0
    THEN maybe_extend(debase64_groups(bytes, 0, Len(bytes) \div 4 - 1),
                      debase64_tail(bytes, 4 * (Len(bytes) \div 4)))
    ELSE None

(***************************************************************************)
(* verifier.rs: Parser.  enc is the input, pos the 0-based offset; a step   *)
(* returns Ok with the new offset and a value, Err with the offset of the   *)
(* parser, or Panic (a failed assertion or an index out of range)           *)
(***************************************************************************)
Ok(pos, val) == [st |-> "ok", pos |-> pos, val |-> val]
Err(pos) == [st |-> "err", pos |-> pos]
Panic == [st |-> "panic"]

\* ASCII
S_argon2 == <<36, 97, 114, 103, 111, 110, 50>>      \* "$argon2"
S_m == <<36, 109, 61>>                               \* "$m="
S_t == <<44, 116, 61>>                               \* ",t="
S_p == <<44, 112, 61>>                               \* ",p="
S_keyid == <<44, 107, 101, 121, 105, 100, 61>>       \* ",keyid="
S_data == <<44, 100, 97, 116, 97, 61>>               \* ",data="
S_dollar == <<36>>                                   \* "$"
S_comma == <<44>>                                    \* ","
Ch_d == 100
Ch_i == 105

\* assert!(pos < enc.len()); &enc[pos..pos + exp.len()] != exp
expect(enc, pos, exp) ==
    IF ~(pos < Len(enc)) THEN Panic
    ELSE IF pos + Len(exp) > Len(enc) THEN Panic
    ELSE IF SubSeq(enc, pos + 1, pos + Len(exp)) # exp THEN Err(pos)
    ELSE Ok(pos + Len(exp), <<>>)

\* chars is never empty here, so enc[pos] is read whenever enc is not empty
one_of(enc, pos, chars) ==
    IF Len(enc) > 0
    THEN IF ~(pos < Len(enc)) THEN Panic
         ELSE IF \E i \in DOMAIN chars : chars[i] = enc[pos + 1]
              THEN Ok(pos + 1, enc[pos + 1])
              ELSE Err(pos)
    ELSE Err(pos)

is_digit(c) == 48 <= c /\ c <= 57

RECURSIVE digits_end(_, _)
digits_end(enc, end) ==
    IF end < Len(enc) /\ is_digit(enc[end + 1]) THEN digits_end(enc, end + 1)
    ELSE end

\* str::parse::<u32>: None for no digit and for a value above u32::MAX.
\* Values are kept as integers: more than 9 significant digits are refused
\* here, which is exact up to 999999999.
RECURSIVE parse_u32_from(_, _, _)
parse_u32_from(ds, i, acc) ==
    IF i > Len(ds) THEN Some(acc)
    ELSE IF acc >= 100000000 THEN None
    ELSE parse_u32_from(ds, i + 1, acc * 10 + (ds[i] - 48))

parse_u32(ds) == IF ds = <<>> THEN None ELSE parse_u32_from(ds, 1, 0)

read_u32(enc, pos) ==
    LET end == digits_end(enc, pos)
        n   == parse_u32(SubSeq(enc, pos + 1, end))
    IN  IF n.some THEN Ok(end, n.v) ELSE Err(pos)

\* enc[at..].iter().take_while(|k| **k != c).fold(0, |c, _| c + 1) + at: the
\* offset of the first c at or after at, or the length of enc
take_while_ne(enc, at, c) ==
    IF \E k \in at..(Len(enc) - 1) : enc[k + 1] = c
    THEN CHOOSE k \in at..(Len(enc) - 1) :
             /\ enc[k + 1] = c
             /\ \A j \in at..(k - 1) : enc[j + 1] # c
    ELSE Len(enc)

\* stopchar is <<>> for None, else the bytes whose first one stops the field
decode64_till(enc, pos, stopchar) ==
    LET end == IF stopchar = <<>> THEN Len(enc)
               ELSE take_while_ne(enc, pos, stopchar[1])
        rv  == debase64_no_pad(SubSeq(enc, pos + 1, end))
    IN  IF rv.some THEN Ok(end, rv.v) ELSE Err(pos)

(***************************************************************************)
(* verifier.rs: Verifier                                                    *)
(***************************************************************************)
\* Parser { enc: encoded, pos: 0 }; val collects what parse has read
parser_new == [st |-> "ok", pos |-> 0, val |-> <<>>]

\* the parser after a step that returned r: try! leaves parse on Err
parser_after(s, r, vals) ==
    IF r.st = "ok" THEN [st |-> "ok", pos |-> r.pos, val |-> s.val \o vals]
    ELSE r

\* the parser after a step whose value parse keeps
parser_keep(s, r) ==
    IF r.st = "ok" THEN parser_after(s, r, <<r.val>>) ELSE r

\* try_unit!(p.expect(exp))
try_expect(enc, s, exp) == parser_after(s, expect(enc, s.pos, exp), <<>>)

\* try!(p.one_of(chars))
try_one_of(enc, s, chars) == parser_keep(s, one_of(enc, s.pos, chars))

\* try!(p.read_u32())
try_read_u32(enc, s) == parser_keep(s, read_u32(enc, s.pos))

\* try!(p.decode64_till(stopchar))
try_decode64_till(enc, s, stopchar) ==
    parser_keep(s, decode64_till(enc, s.pos, stopchar))

\* match p.expect(tag) { Err(_) => vec![],
\*                       Ok(()) => try!(p.decode64_till(Some(stopchar))) }
optional_field(enc, s, tag, stopchar) ==
    Bind(expect(enc, s.pos, tag), LAMBDA e :
      IF e.st = "panic" THEN Panic
      ELSE IF e.st = "err" THEN parser_after(s, Ok(s.pos, <<>>), <<(<<>>)>>)
      ELSE try_decode64_till(enc, parser_after(s, e, <<>>), stopchar))

\* the statements of Verifier::parse, in order
parse_steps ==
    << <<"expect", S_argon2>>, <<"one_of", <<Ch_d, Ch_i>> >>,
       <<"expect", S_m>>, <<"read_u32">>,
       <<"expect", S_t>>, <<"read_u32">>,
       <<"expect", S_p>>, <<"read_u32">>,
       <<"optional", S_keyid, S_comma>>,
       <<"optional", S_data, S_dollar>>,
       <<"expect", S_dollar>>, <<"decode64_till", S_dollar>>,
       <<"expect", S_dollar>>, <<"decode64_till", <<>> >> >>

parse_step(enc, s, step) ==
    IF step[1] = "expect" THEN try_expect(enc, s, step[2])
    ELSE IF step[1] = "one_of" THEN try_one_of(enc, s, step[2])
    ELSE IF step[1] = "read_u32" THEN try_read_u32(enc, s)
    ELSE IF step[1] = "optional" THEN optional_field(enc, s, step[2], step[3])
    ELSE try_decode64_till(enc, s, step[2])

\* the statements from the i-th on; an Err or a panic ends parse
RECURSIVE parse_from(_, _, _)
parse_from(enc, s, i) ==
    IF s.st # "ok" \/ i > Len(parse_steps) THEN s
    ELSE parse_from(enc, parse_step(enc, s, parse_steps[i]), i + 1)

\* Ok((variant, kib, passes, lanes, key, data, salt, hash))
packed(s) ==
    IF s.st # "ok" THEN s
    ELSE Ok(s.pos,
            [variant |-> IF s.val[1] = Ch_d THEN Argon2d ELSE Argon2i,
             kib |-> s.val[2], passes |-> s.val[3], lanes |-> s.val[4],
             key |-> s.val[5], data |-> s.val[6], salt |-> s.val[7],
             hash |-> s.val[8]])

\* Verifier::parse
parse(enc) == packed(parse_from(enc, parser_new, 1))

\* the match of from_u8 on the result r of parse
from_parsed(r) ==
    IF r.st = "panic" THEN [st |-> "panic"]
    ELSE IF r.st = "err" THEN [st |-> "ParseError", pos |-> r.pos]
    ELSE Bind(Argon2_new(r.val.passes, r.val.lanes, r.val.kib, r.val.variant),
              LAMBDA a2 :
                IF ~a2.ok THEN [st |-> "InvalidParams", err |-> a2.err]
                ELSE [st |-> "ok",
                      v |-> [params |-> a2, hash |-> r.val.hash,
                             salt |-> r.val.salt, key |-> r.val.key,
                             data |-> r.val.data]])

\* Verifier::from_u8
from_u8(enc) == from_parsed(parse(enc))

\* Argon2::params, which to_u8 calls: (variant, kib, passes, lanes)
Argon2_params(a) == <<a.variant, a.kib, a.passes, a.lanes>>

\* format!("{}", n) of a u32
RECURSIVE Dec(_)
Dec(n) == IF n < 10 THEN <<48 + n>> ELSE Dec(n \div 10) \o <<48 + (n % 10)>>

vcode(v) == IF v = Argon2i THEN <<Ch_i>> ELSE <<Ch_d>>

\* Verifier::to_u8
to_u8(v) ==
    LET kb == base64_no_pad(v.key)
        xb == base64_no_pad(v.data)
        k_ == IF Len(kb) > 0 THEN S_keyid \o kb ELSE <<>>
        x_ == IF Len(xb) > 0 THEN S_data \o xb ELSE <<>>
        pr == Argon2_params(v.params)
    IN  S_argon2 \o vcode(pr[1]) \o S_m \o Dec(pr[2]) \o S_t \o Dec(pr[3])
          \o S_p \o Dec(pr[4]) \o k_ \o x_
          \o S_dollar \o base64_no_pad(v.salt)
          \o S_dollar \o base64_no_pad(v.hash)

\* Verifier::new: the stored hash has defaults::LENGTH bytes
Verifier_new(argon, p, s, k, x) ==
    [params |-> argon, hash |-> hash(argon, LENGTH, p, s, k, x),
     salt |-> s, key |-> k, data |-> x]

\* xs.iter().zip(ys.iter()).fold(0, |rv, (x, y)| rv | (x ^ y)) over the
\* positions lo..hi; | is associative, so the halves are folded apart
RECURSIVE constant_fold(_, _, _, _)
constant_fold(xs, ys, lo, hi) ==
    IF lo > hi THEN 0
    ELSE IF lo = hi THEN Xor(xs[lo], ys[lo])
    ELSE Or8(constant_fold(xs, ys, lo, (lo + hi) \div 2),
             constant_fold(xs, ys, (lo + hi) \div 2 + 1, hi))

constant_eq(xs, ys) ==
    IF Len(xs) # Len(ys) THEN FALSE
    ELSE constant_fold(xs, ys, 1, Len(xs)) = 0

\* Verifier::verify: out has defaults::LENGTH bytes
verify(v, p) ==
    Bind(hash(v.params, LENGTH, p, v.salt, v.key, v.data),
         LAMBDA out : constant_eq(out, v.hash))

(***************************************************************************)
(* Bounds of the model                                                      *)
(***************************************************************************)
MaxPasses == 2
MaxLanes == 2
MaxSliceLen == 3

(***************************************************************************)
(* State                                                                    *)
(***************************************************************************)
VARIABLES
    argon,      \* the Argon2 parameter record of the hash in progress
    inp,        \* the arguments of hash_impl: out.len(), p, s, k, x
    mainPc,     \* where hash_impl is
    pass,       \* loop variables of hash_impl
    slice,
    nspawn,     \* lanes spawned so far in the current crossbeam::scope
    h0buf,      \* the local h0
    blocks,     \* the Matrix
    worker,     \* per lane: the spawned closure and its position in fill_slice
    out,        \* the output buffer
    calls,      \* the calls of h0_fn and pass_fn so far
    started,    \* per lane: slice fills started so far
    finished,   \* per lane: slice fills finished so far
    stamp,      \* per block: the pass that last wrote it, -1 before
    writes,     \* per block: how often h_prime and g have written it
    lastFill,   \* the coordinates of the last fill_block, by any lane
    api,        \* the last call of Argon2::new / default / argon2?_simple
    alpha,      \* the last evaluation of index_alpha
    codec       \* the function called on its own (verifier, codec, block functions)

hashVars == <<argon, inp, mainPc, pass, slice, nspawn, h0buf, blocks, worker,
              out, calls, started, finished, stamp, writes, lastFill>>
vars == <<argon, inp, mainPc, pass, slice, nspawn, h0buf, blocks, worker,
          out, calls, started, finished, stamp, writes, lastFill, api, alpha, codec>>

NoApi == [op |-> "none"]
NoAlpha == [op |-> "none"]
NoCodec == [op |-> "none"]

HashIdle ==
    /\ argon = [ok |-> FALSE, err |-> <<"none">>]
    /\ inp = <<>>
    /\ mainPc = "off"
    /\ pass = 0 /\ slice = 0 /\ nspawn = 0
    /\ h0buf = <<>> /\ blocks = <<>> /\ worker = <<>> /\ out = <<>>
    /\ calls = <<>> /\ started = <<>> /\ finished = <<>> /\ stamp = <<>>
    /\ writes = <<>>
    /\ lastFill = [valid |-> FALSE]

(***************************************************************************)
(* Argon2::hash_impl with one worker per lane                               *)
(***************************************************************************)
\* parameter records new accepts, with lanelen = 4 * slicelen
ParamChoices ==
    { Argon2_new(t, l, 4 * l * sl, v) :
        t \in 1..MaxPasses, l \in 1..MaxLanes, sl \in 2..MaxSliceLen,
        v \in Variants }

Passwords == {<<1>>, <<1, 1>>}

\* out.len() is a usize, kept as a u64; outlen is "out.len() as u32"
OutLens == {U64(3), U64(4), TwoTo32}

InputChoices ==
    { [len |-> n, outlen |-> WValue(SubSeq(n, 1, 4)), p |-> pw, s |-> <<2, 2>>,
       k |-> <<>>, x |-> <<>>] :
        n \in OutLens, pw \in Passwords }

Lanes == 0..(argon.lanes - 1)
SliceLen == argon.lanelen \div SLICES_PER_LANE

NoFill == [valid |-> FALSE]
IdleWorker == [pc |-> "idle", pass |-> 0, slice |-> 0, idx |-> 0,
               gen |-> Gen2i_new(0, 0, 0, 0, 0, 0)]

HashInit ==
    /\ argon \in ParamChoices
    /\ inp \in InputChoices
    /\ mainPc = "entry"
    /\ pass = 0 /\ slice = 0 /\ nspawn = 0
    /\ h0buf = <<>> /\ blocks = <<>> /\ out = <<>> /\ calls = <<>>
    /\ worker = [l \in Lanes |-> IdleWorker]
    /\ started = [l \in Lanes |-> 0]
    /\ finished = [l \in Lanes |-> 0]
    /\ stamp = <<>> /\ writes = <<>>
    /\ lastFill = NoFill

\* only the second assertion of hash_impl
out_len_upper(len) == WFits(len, 4)

\* assert!(out.len() >= 4); assert!(out.len() <= 0xffffffff);
out_len_ok(len) == ~WLess(len, U64(4)) /\ WFits(len, 4)

\* h0_fn(&h0): the callback is handed the buffer
h0_call(h) == <<"h0_fn", Len(h)>>

\* pass_fn(0, &blocks) whatever the pass
pass_call_first(p) == <<"pass_fn", 0>>

\* pass_fn(p, &blocks)
pass_call(p) == <<"pass_fn", p>>

\* a Matrix released as it is
Matrix_forget(blks) == blks

\* Drop for Matrix: for blk in self.blocks.iter_mut() { *blk = zero(); }
Matrix_drop(blks) == [rc \in DOMAIN blks |-> zero]

\* assert!(out.len() >= 4); assert!(out.len() <= 0xffffffff);
\* Matrix::new; h0; h0_fn(&h0)
Start ==
    /\ mainPc = "entry"
    /\ IF out_len_ok(inp.len)
       THEN /\ mainPc' = "spawn"
            /\ blocks' = Matrix_new(argon.lanes, argon.lanelen)
            /\ stamp' = [rc \in DOMAIN Matrix_new(argon.lanes, argon.lanelen) |-> -1]
            /\ writes' = [rc \in DOMAIN Matrix_new(argon.lanes, argon.lanelen) |->
                             [h |-> 0, g |-> 0]]
            /\ h0buf' = h0(argon.lanes, inp.outlen, argon.kib, argon.passes,
                           ARGON2_VERSION, argon.variant, inp.p, inp.s, inp.k, inp.x)
            /\ calls' = <<h0_call(h0buf')>>
       ELSE /\ mainPc' = "panic"
            /\ UNCHANGED <<blocks, stamp, writes, h0buf, calls>>
    /\ UNCHANGED <<argon, inp, pass, slice, nspawn, worker, out, started,
                   finished, lastFill, api, alpha, codec>>

\* the worker a scope spawns for a lane: fill_first_slice in the first round,
\* fill_slice(.., pass, l, slice, 0) in the others
\* fill_first_slice in slice 0 of every pass
spawned_worker_seeding(a, p, s, l) ==
    IF s = 0
    THEN [pc |-> "seed0", pass |-> p, slice |-> 0, idx |-> 0,
          gen |-> IdleWorker.gen]
    ELSE [pc |-> "fill", pass |-> p, slice |-> s, idx |-> 0,
          gen |-> Gen2i_new(0, p, l, s, a.lanes * a.lanelen, a.passes)]

spawned_worker(a, p, s, l) ==
    IF p = 0 /\ s = 0
    THEN [pc |-> "seed0", pass |-> 0, slice |-> 0, idx |-> 0,
          gen |-> IdleWorker.gen]
    ELSE [pc |-> "fill", pass |-> p, slice |-> s, idx |-> 0,
          gen |-> Gen2i_new(0, p, l, s, a.lanes * a.lanelen, a.passes)]

\* sc.spawn(move || ...) for the next lane of the zip
Spawn ==
    /\ mainPc = "spawn"
    /\ nspawn < argon.lanes
    /\ worker' = [worker EXCEPT ![nspawn] = spawned_worker(argon, pass, slice, nspawn)]
    /\ started' = [started EXCEPT ![nspawn] = @ + 1]
    /\ nspawn' = nspawn + 1
    /\ UNCHANGED <<argon, inp, mainPc, pass, slice, h0buf, blocks, out, calls,
                   finished, stamp, writes, lastFill, api, alpha, codec>>

\* a scope that returns as soon as one spawned thread has returned
scope_joined_any(w) == \E l \in DOMAIN w : w[l].pc = "done"

\* a scope that waits for one thread more than it spawned
scope_joined_one_more(w) ==
    \A l \in DOMAIN w \cup {Cardinality(DOMAIN w)} :
        l \in DOMAIN w /\ w[l].pc = "done"

\* the end of crossbeam::scope: every spawned thread has been joined
scope_joined(w) == \A l \in DOMAIN w : w[l].pc = "done"

Join ==
    /\ mainPc = "spawn"
    /\ nspawn = argon.lanes
    /\ scope_joined(worker)
    /\ nspawn' = 0
    /\ IF slice + 1 < SLICES_PER_LANE
       THEN slice' = slice + 1 /\ mainPc' = "spawn"
       ELSE slice' = slice /\ mainPc' = "pass_fn"
    /\ UNCHANGED <<argon, inp, pass, h0buf, blocks, worker, out, calls, started,
                   finished, stamp, writes, lastFill, api, alpha, codec>>

\* pass_fn(p, &blocks), then the next pass or the tag
PassFn ==
    /\ mainPc = "pass_fn"
    /\ calls' = Append(calls, pass_call(pass))
    /\ IF pass + 1 < argon.passes
       THEN pass' = pass + 1 /\ slice' = 0 /\ mainPc' = "spawn"
       ELSE pass' = pass /\ slice' = slice /\ mainPc' = "h_prime"
    /\ UNCHANGED <<argon, inp, nspawn, h0buf, blocks, worker, out, started,
                   finished, stamp, writes, lastFill, api, alpha, codec>>

\* h_prime(out, as_u8(xor_all(blocks.col(lanelen - 1))))
Tag ==
    /\ mainPc = "h_prime"
    /\ out' = tag_of(argon, blocks, inp.outlen)
    /\ mainPc' = "drop"
    /\ UNCHANGED <<argon, inp, pass, slice, nspawn, h0buf, blocks, worker, calls,
                   started, finished, stamp, writes, lastFill, api, alpha, codec>>

\* blocks goes out of scope: Drop for Matrix zeroes every block
Drop ==
    /\ mainPc = "drop"
    /\ blocks' = Matrix_drop(blocks)
    /\ mainPc' = "done"
    /\ UNCHANGED <<argon, inp, pass, slice, nspawn, h0buf, worker, out, calls,
                   started, finished, stamp, writes, lastFill, api, alpha, codec>>

\* hash returned and the caller calls hash again, on the same Argon2 and
\* with a buffer and inputs of its choice; blocks is still the memory the
\* matrix of the call before was in, until Matrix::new of the new call
Again ==
    /\ mainPc = "done"
    /\ inp' \in InputChoices
    /\ mainPc' = "entry"
    /\ pass' = 0 /\ slice' = 0 /\ nspawn' = 0
    /\ h0buf' = <<>> /\ out' = <<>> /\ calls' = <<>>
    /\ worker' = [l \in Lanes |-> IdleWorker]
    /\ started' = [l \in Lanes |-> 0]
    /\ finished' = [l \in Lanes |-> 0]
    /\ stamp' = <<>> /\ writes' = <<>>
    /\ lastFill' = NoFill
    /\ UNCHANGED <<argon, blocks, api, alpha, codec>>

\* a worker whose loop over offset..slicelen is at idx: running or returned
at_idx(w, idx, slicelen) ==
    [w EXCEPT !.idx = idx, !.pc = IF idx < slicelen THEN "fill" ELSE "done"]

\* h_prime(as_u8_mut(&mut blks[(lane, 0)]), &h0)
Seed0(l) ==
    /\ worker[l].pc = "seed0"
    /\ blocks' = [blocks EXCEPT ![<<l, 0>>] = seed_block(h0buf, l, 0)]
    /\ stamp' = [stamp EXCEPT ![<<l, 0>>] = 0]
    /\ writes' = [writes EXCEPT ![<<l, 0>>].h = @ + 1]
    /\ worker' = [worker EXCEPT ![l].pc = "seed1"]
    /\ UNCHANGED <<argon, inp, mainPc, pass, slice, nspawn, h0buf, out, calls,
                   started, finished, lastFill, api, alpha, codec>>

\* h_prime(as_u8_mut(&mut blks[(lane, 1)]), &h0); fill_slice(blks, 0, lane, 0, 2)
Seed1(l) ==
    /\ worker[l].pc = "seed1"
    /\ blocks' = [blocks EXCEPT ![<<l, 1>>] = seed_block(h0buf, l, 1)]
    /\ stamp' = [stamp EXCEPT ![<<l, 1>>] = 0]
    /\ writes' = [writes EXCEPT ![<<l, 1>>].h = @ + 1]
    /\ LET w == at_idx([worker[l] EXCEPT !.gen =
                          Gen2i_new(2, 0, l, 0, argon.lanes * argon.lanelen,
                                    argon.passes)], 2, SliceLen)
       IN  /\ worker' = [worker EXCEPT ![l] = w]
           /\ finished' = [finished EXCEPT ![l] = IF w.pc = "done" THEN @ + 1 ELSE @]
    /\ UNCHANGED <<argon, inp, mainPc, pass, slice, nspawn, h0buf, out, calls,
                   started, lastFill, api, alpha, codec>>

\* what one iteration of fill_slice leaves in the worker and the
\* bookkeeping, given the coordinates c that fill_block computed from the
\* (j1, j2) it drew, the generator afterwards and the matrix afterwards
FillStep(l, c, gen, blks) ==
    LET w == worker[l]
    IN  IF get3_ok(c)
        THEN LET w2 == at_idx([w EXCEPT !.gen = gen], w.idx + 1, SliceLen)
             IN  /\ blocks' = blks
                 /\ stamp' = [stamp EXCEPT ![c.cur] = w.pass]
                 /\ writes' = [writes EXCEPT ![c.cur].g = @ + 1]
                 /\ worker' = [worker EXCEPT ![l] = w2]
                 /\ finished' = [finished EXCEPT ![l] =
                                    IF w2.pc = "done" THEN @ + 1 ELSE @]
                 /\ lastFill' =
                        [valid |-> TRUE, lane |-> l, pass |-> w.pass,
                         slice |-> w.slice, idx |-> w.idx, cur |-> c.cur,
                         pre |-> c.pre, ref |-> c.ref,
                         refStamp |-> IF in_matrix(argon, c.ref)
                                      THEN stamp[c.ref] ELSE -2]
        ELSE /\ worker' = [worker EXCEPT ![l].pc = "panic"]
             /\ UNCHANGED <<blocks, stamp, writes, finished, lastFill>>

\* one iteration of the loop of fill_slice: (j1, j2), then fill_block
FillBlock(l) ==
    /\ worker[l].pc = "fill"
    /\ LET w == worker[l]
           j == slice_j(argon, blocks, w.gen, l, w.slice, w.idx)
       IN  FillStep(l,
               fill_coords(argon, w.pass, l, w.slice, w.idx, j.rv[1], j.rv[2]),
               j.gen,
               fill_block(argon, blocks, w.pass, l, w.slice, w.idx,
                          j.rv[1], j.rv[2]))
    /\ UNCHANGED <<argon, inp, mainPc, pass, slice, nspawn, h0buf, out, calls,
                   started, api, alpha, codec>>

HashNext ==
    \/ Start
    \/ Spawn
    \/ Join
    \/ PassFn
    \/ Tag
    \/ Drop
    \/ Again
    \/ \E l \in Lanes : Seed0(l)
    \/ \E l \in Lanes : Seed1(l)
    \/ \E l \in Lanes : FillBlock(l)

Init == HashInit /\ api = NoApi /\ alpha = NoAlpha /\ codec = NoCodec

Next == HashNext

Spec == Init /\ [][Next]_vars

(***************************************************************************)
(* hash_impl under a fair scheduler: the thread of hash_impl goes on        *)
(* whenever it can, and so does every spawned lane worker; whether hash is  *)
(* called again is up to the caller.                                        *)
(*                                                                          *)
(* Weak fairness of a step A is <>[]ENABLED <<A>>_vars => []<><<A>>_vars.   *)
(* For the steps that compute digests, index streams and blocks (Start,     *)
(* Spawn, Tag and the lane workers') the two action formulas are written    *)
(* out from the guards, as state predicates and changes of the position,    *)
(* so that they do not recompute the digests.                               *)
(***************************************************************************)
Running(l) == worker[l].pc \in {"seed0", "seed1", "fill"}

\* the steps of the thread of hash_impl that compute nothing
MainStep == Join \/ PassFn \/ Drop

\* ENABLED <<Start \/ Spawn \/ Tag>>_vars
DigestReady ==
    \/ mainPc \in {"entry", "h_prime"}
    \/ mainPc = "spawn" /\ nspawn < argon.lanes

\* <<Start \/ Spawn \/ Tag>>_vars: at these positions no other step changes
\* the position of the thread of hash_impl
DigestMoves == DigestReady /\ (mainPc' # mainPc \/ nspawn' # nspawn)

\* ENABLED <<Seed0(l) \/ Seed1(l) \/ FillBlock(l)>>_vars
LaneReady(l) == l \in Lanes /\ Running(l)

\* <<Seed0(l) \/ Seed1(l) \/ FillBlock(l)>>_vars: a running worker's record
\* is changed by its own steps only
LaneMoves(l) == LaneReady(l) /\ worker'[l] # worker[l]

\* the written-out steps are the steps of the actions they stand for
FairStepsAreSteps ==
    [][/\ DigestMoves <=> (Start \/ Spawn \/ Tag)
       /\ \A l \in Lanes :
              LaneMoves(l) <=> (Seed0(l) \/ Seed1(l) \/ FillBlock(l))]_vars

SpecFair ==
    /\ Init /\ [][Next]_vars
    /\ WF_vars(MainStep)
    /\ <>[]DigestReady => []<><<DigestMoves>>_vars
    /\ \A l \in 0..MaxLanes : <>[]LaneReady(l) => []<><<LaneMoves(l)>>_vars

(***************************************************************************)
(* The same schedule with (J1, J2) left open: whatever the blocks or the    *)
(* index stream hold, fill_block is handed two u32.  The matrix contents    *)
(* are not tracked here, only which block is written and read, and when.    *)
(***************************************************************************)
U32Max == U32(Half - 1, Half - 1)

\* J1 decides the position in the window: the two ends and values between
J1Choices == {U32(0, 0), U32(0, Half \div 2), U32Max}

\* J2 decides the lane: every residue modulo the lane count, and the top
J2Choices == {U32(k, 0) : k \in 0..(MaxLanes - 1)} \cup {U32Max}

InitJ ==
    /\ argon \in {a \in ParamChoices :
                     a.variant = Argon2d /\ a.passes = MaxPasses}
    /\ inp = [len |-> U64(4), outlen |-> 4, p |-> <<1>>, s |-> <<2, 2>>,
              k |-> <<>>, x |-> <<>>]
    /\ mainPc = "entry"
    /\ pass = 0 /\ slice = 0 /\ nspawn = 0
    /\ h0buf = <<>> /\ blocks = <<>> /\ out = <<>> /\ calls = <<>>
    /\ worker = [l \in Lanes |-> IdleWorker]
    /\ started = [l \in Lanes |-> 0]
    /\ finished = [l \in Lanes |-> 0]
    /\ stamp = <<>> /\ writes = <<>>
    /\ lastFill = NoFill
    /\ api = NoApi /\ alpha = NoAlpha /\ codec = NoCodec

\* one iteration of the loop of fill_slice with an arbitrary (j1, j2)
FillBlockJ(l) ==
    /\ worker[l].pc = "fill"
    /\ LET w == worker[l]
       IN  \E c \in { fill_coords(argon, w.pass, l, w.slice, w.idx, j1, j2) :
                        j1 \in J1Choices, j2 \in J2Choices } :
              FillStep(l, c, w.gen, blocks)
    /\ UNCHANGED <<argon, inp, mainPc, pass, slice, nspawn, h0buf, out, calls,
                   started, api, alpha, codec>>

NextJ ==
    \/ Start
    \/ Spawn
    \/ Join
    \/ PassFn
    \/ Tag
    \/ Drop
    \/ \E l \in Lanes : Seed0(l)
    \/ \E l \in Lanes : Seed1(l)
    \/ \E l \in Lanes : FillBlockJ(l)

SpecJ == InitJ /\ [][NextJ]_vars

(***************************************************************************)
(* index_alpha on its own, over its legal inputs                            *)
(***************************************************************************)
AlphaJ1 == {U32(0, 0), U32(1, 0), U32(Half - 1, 0), U32(0, 1),
            U32(0, Half \div 2), U32(Half - 1, Half \div 2 - 1),
            U32(46341, 46340), U32(Half - 2, Half - 1), U32Max}

\* the legal inputs: lane < lanes, slice < 4, slicelen >= 2,
\* sliceidx < slicelen, and sliceidx >= 2 in the first slice of pass 0
AlphaInputs ==
    { [op |-> "input", pass |-> p, lane |-> l, slice |-> sl, lanes |-> n,
       sliceidx |-> i, slicelen |-> len, j1 |-> j1, j2 |-> j2] :
        p \in 0..(MaxPasses - 1), n \in 1..MaxLanes, l \in 0..(MaxLanes - 1),
        sl \in 0..(SLICES_PER_LANE - 1), len \in 2..MaxSliceLen,
        i \in 0..(MaxSliceLen - 1), j1 \in AlphaJ1, j2 \in J2Choices }

AlphaLegal(c) ==
    /\ c.lane < c.lanes
    /\ c.sliceidx < c.slicelen
    /\ (c.pass = 0 /\ c.slice = 0) => c.sliceidx >= 2

InitAlpha ==
    /\ HashIdle /\ api = NoApi /\ codec = NoCodec
    /\ alpha \in {c \in AlphaInputs : AlphaLegal(c)}

\* index_alpha(pass, lane, slice, lanes, sliceidx, slicelen, j1, j2), with
\* the intermediate r_ and relpos kept for inspection
AlphaCall ==
    /\ alpha.op = "input"
    /\ LET r == alpha_r(alpha.pass, alpha.lane, alpha.slice, alpha.lanes,
                        alpha.sliceidx, alpha.slicelen, alpha.j2)
       IN  alpha' = [op |-> "done", pass |-> alpha.pass, lane |-> alpha.lane,
                     slice |-> alpha.slice, lanes |-> alpha.lanes,
                     sliceidx |-> alpha.sliceidx, slicelen |-> alpha.slicelen,
                     j1 |-> alpha.j1, j2 |-> alpha.j2,
                     r |-> r, skew |-> alpha_skew(r, alpha.j1),
                     relpos |-> alpha_relpos(r, alpha.j1),
                     z |-> index_alpha(alpha.pass, alpha.lane, alpha.slice,
                                       alpha.lanes, alpha.sliceidx,
                                       alpha.slicelen, alpha.j1, alpha.j2)]
    /\ UNCHANGED <<hashVars, api, codec>>

NextAlpha == AlphaCall

SpecAlpha == InitAlpha /\ [][NextAlpha]_vars

(***************************************************************************)
(* The constructors: Argon2::new, Argon2::default, argon2?_simple           *)
(***************************************************************************)
\* 2^29: the smallest lane count whose 8-fold does not fit 32 bits
BigLanes == 2^29

\* u32::MAX >> 1, the largest kib the integers here hold
BigKiB == 2^30 + (2^30 - 1)

NewPasses == {0, 1, 2, PASSES}
\* 2^28 - 1: the largest lane count that the largest kib here admits
HugeLanes == 2^28 - 1

NewLanes == {0, 1, 2, 4, HugeLanes, BigLanes}
NewKiB == {0, 1, 7, 8, 15, 16, 31, 32, 33, KIB, BigKiB}

\* "password", "somesalt"
S_password == <<112, 97, 115, 115, 119, 111, 114, 100>>
S_somesalt == <<115, 111, 109, 101, 115, 97, 108, 116>>

InitNew ==
    /\ HashIdle /\ alpha = NoAlpha /\ codec = NoCodec
    /\ api = NoApi

\* Argon2::new(passes, lanes, kib, variant)
NewCall ==
    /\ api.op = "none"
    /\ \E t \in NewPasses, l \in NewLanes, m \in NewKiB, v \in Variants :
          api' = [op |-> "new", passes |-> t, lanes |-> l, kib |-> m,
                  variant |-> v, res |-> Argon2_new(t, l, m, v)]
    /\ UNCHANGED <<hashVars, alpha, codec>>

\* Argon2::default(v)
DefaultCall ==
    /\ api.op = "none"
    /\ \E v \in Variants :
          api' = [op |-> "default", variant |-> v, res |-> Argon2_default(v)]
    /\ UNCHANGED <<hashVars, alpha, codec>>

\* argon2i_simple(password, salt), argon2d_simple(password, salt)
SimpleCall ==
    /\ api.op = "none"
    /\ \E v \in Variants, pw \in {<<>>, S_password}, s \in {<<>>, S_somesalt} :
          api' = [op |-> "simple", variant |-> v, password |-> pw, salt |-> s,
                  res |-> argon2_simple(v, pw, s)]
    /\ UNCHANGED <<hashVars, alpha, codec>>

NextNew ==
    \/ NewCall
    \/ DefaultCall
    \/ SimpleCall

SpecNew == InitNew /\ [][NextNew]_vars

(***************************************************************************)
(* The Verifier: new, to_u8, from_u8, verify                                *)
(***************************************************************************)
S_key == <<107, 101, 121>>                           \* "key"
S_ad == <<97, 100>>                                  \* "ad"
S_pw == <<112, 119>>                                 \* "pw"
S_nope == <<110, 111, 112, 101>>                     \* "nope"

CodecParams == {Argon2_new(t, 1, 8, v) : t \in {1, 2}, v \in Variants}
CodecSalts == {<<115>>, S_somesalt}
CodecKeys == {<<>>, S_key}
CodecData == {<<>>, S_ad}
CodecPwds == {S_pw, S_nope}

\* the lengths of the stored tag of a PHC string
TagLens == {4, 32, LENGTH}

\* a PHC string as another encoder of the same format writes it: the hash
\* field is the tag of tau bytes of pw under the parameters of the string
phc_string(a, tau, pw, s, k, x) ==
    to_u8([params |-> a, hash |-> hash(a, tau, pw, s, k, x),
           salt |-> s, key |-> k, data |-> x])

\* strings of the grammar with short fields, digit by digit
GrammarFields ==
    { <<36, 81, 81>>,                                \* "$QQ"
      <<36, 99, 50, 70, 115, 100, 65>>,              \* "$c2FsdA"
      <<36, 99, 50, 57, 116, 90, 88, 78, 104, 98, 72, 81>> }  \* "$c29tZXNhbHQ"

GrammarStrings ==
    { S_argon2 \o vcode(v) \o S_m \o m \o S_t \o <<49>> \o S_p \o <<49>>
        \o k \o x \o s \o h :
        v \in Variants,
        m \in {<<56>>, <<49, 54>>},
        k \in {<<>>, S_keyid \o <<97, 50, 86, 53>>},          \* "a2V5"
        x \in {<<>>, S_data \o <<89, 87, 81>>},               \* "YWQ"
        s \in GrammarFields, h \in GrammarFields }

\* the strings that are cut short or broken: every optional field present,
\* and none
CutStrings ==
    { S_argon2 \o <<Ch_i>> \o S_m \o <<49, 54>> \o S_t \o <<49>> \o S_p \o <<49>>
        \o k \o <<36, 99, 50, 70, 115, 100, 65>> \o <<36, 81, 81>> :
        k \in {<<>>, S_keyid \o <<97, 50, 86, 53>> \o S_data \o <<89, 87, 81>>} }

S_bang == <<33>>                                     \* "!"

NoVerifier == [params |-> [ok |-> FALSE]]

InitCodec ==
    /\ HashIdle /\ api = NoApi /\ alpha = NoAlpha
    /\ codec = NoCodec

\* Verifier::new(argon, p, s, k, x)
VerifierNew ==
    /\ codec.op = "none"
    /\ \E a \in CodecParams, s \in CodecSalts, k \in CodecKeys, x \in CodecData :
          codec' = [op |-> "new", origin |-> "new", st |-> "ok",
                    v |-> Verifier_new(a, S_pw, s, k, x), enc |-> <<>>,
                    v0 |-> NoVerifier, s0 |-> <<>>, pos |-> -1, pw |-> S_pw,
                    bad |-> -1]
    /\ UNCHANGED <<hashVars, api, alpha>>

\* the caller holds a PHC string that carries the tag of the password "pw"
TakeTagged ==
    /\ codec.op = "none"
    /\ \E a \in CodecParams, tau \in TagLens, k \in CodecKeys :
          codec' = [op |-> "string", origin |-> "tagged", st |-> "ok",
                    v |-> NoVerifier,
                    enc |-> phc_string(a, tau, S_pw, S_somesalt, k,
                                       IF k = <<>> THEN <<>> ELSE S_ad),
                    v0 |-> NoVerifier, s0 |-> <<>>, pos |-> -1, pw |-> S_pw,
                    bad |-> -1]
    /\ UNCHANGED <<hashVars, api, alpha>>

\* the caller holds a string of the grammar
TakeGrammar ==
    /\ codec.op = "none"
    /\ \E s \in GrammarStrings :
          codec' = [op |-> "string", origin |-> "grammar", st |-> "ok",
                    v |-> NoVerifier, enc |-> s,
                    v0 |-> NoVerifier, s0 |-> <<>>, pos |-> -1, pw |-> <<>>,
                    bad |-> -1]
    /\ UNCHANGED <<hashVars, api, alpha>>

\* a string holder: the caller holds enc, whose first byte that no string
\* of the grammar has at its place is at offset bad (-1: none)
held_string(origin, enc, bad) ==
    [op |-> "string", origin |-> origin, st |-> "ok", v |-> NoVerifier,
     enc |-> enc, v0 |-> NoVerifier, s0 |-> <<>>, pos |-> -1, pw |-> <<>>,
     bad |-> bad]

\* the caller holds a string of the grammar cut at offset n: the end of the
\* input is where it stops being one
TakePrefix ==
    /\ codec.op = "none"
    /\ \E s \in CutStrings : \E n \in 0..(Len(s) - 1) :
          codec' = held_string("prefix", SubSeq(s, 1, n), n)
    /\ UNCHANGED <<hashVars, api, alpha>>

\* the caller holds a string of the grammar whose byte at offset n was
\* replaced by "!", or to which "!" was appended (n = its length)
TakeBroken ==
    /\ codec.op = "none"
    /\ \E s \in CutStrings : \E n \in 0..Len(s) :
          codec' = held_string("broken",
                       SubSeq(s, 1, n) \o S_bang \o SubSeq(s, n + 2, Len(s)), n)
    /\ UNCHANGED <<hashVars, api, alpha>>

\* v.to_u8()
ToU8 ==
    /\ codec.op \in {"new", "from_u8"}
    /\ codec.st = "ok"
    /\ codec' = [codec EXCEPT !.op = "to_u8", !.enc = to_u8(codec.v),
                              !.s0 = codec.enc]
    /\ UNCHANGED <<hashVars, api, alpha>>

\* what the caller holds after from_u8 returned r
from_u8_result(c, r) ==
    [c EXCEPT !.op = "from_u8", !.st = r.st,
              !.v = IF r.st = "ok" THEN r.v ELSE NoVerifier,
              !.v0 = c.v,
              !.pos = IF r.st = "ParseError" THEN r.pos ELSE -1]

\* Verifier::from_u8(enc)
FromU8 ==
    /\ codec.op \in {"string", "to_u8"}
    /\ codec' = from_u8_result(codec, from_u8(codec.enc))
    /\ UNCHANGED <<hashVars, api, alpha>>

\* v.verify(p)
Verify ==
    /\ codec.op \in {"new", "from_u8"}
    /\ codec.st = "ok"
    /\ \E p \in CodecPwds :
          codec' = [codec EXCEPT !.op = "verify", !.pw = p,
                                 !.st = IF verify(codec.v, p) THEN "true"
                                        ELSE "false"]
    /\ UNCHANGED <<hashVars, api, alpha>>

NextCodec ==
    \/ VerifierNew
    \/ TakeTagged
    \/ TakeGrammar
    \/ TakePrefix
    \/ TakeBroken
    \/ ToU8
    \/ FromU8
    \/ Verify

SpecCodec == InitCodec /\ [][NextCodec]_vars

(***************************************************************************)
(* base64_no_pad and debase64_no_pad on their own: a byte string is encoded *)
(* and the encoding decoded, or a text is decoded                           *)
(***************************************************************************)
MaxB64Len == 4

B64Bytes == {0, 77, 255}

\* "A", "/", "!" and "=": two bytes of the alphabet and two outside
B64Chars == {65, 47, 33, 61}

RECURSIVE StringsOver(_, _)
StringsOver(alphabet, n) ==
    IF n = 0 THEN {<<>>}
    ELSE StringsOver(alphabet, n - 1)
         \cup {t \o <<c>> : t \in {u \in StringsOver(alphabet, n - 1) :
                                      Len(u) = n - 1},
                            c \in alphabet}

InitB64 ==
    /\ HashIdle /\ api = NoApi /\ alpha = NoAlpha
    /\ \/ \E b \in StringsOver(B64Bytes, MaxB64Len) :
             codec = [op |-> "none", origin |-> "bytes", b |-> b,
                      enc |-> <<>>, res |-> None]
       \/ \E t \in StringsOver(B64Chars, MaxB64Len + 1) :
             codec = [op |-> "base64_no_pad", origin |-> "text", b |-> <<>>,
                      enc |-> t, res |-> None]

\* base64_no_pad(b)
Base64NoPad ==
    /\ codec.op = "none"
    /\ codec' = [codec EXCEPT !.op = "base64_no_pad",
                              !.enc = base64_no_pad(codec.b)]
    /\ UNCHANGED <<hashVars, api, alpha>>

\* debase64_no_pad(enc)
Debase64NoPad ==
    /\ codec.op = "base64_no_pad"
    /\ codec' = [codec EXCEPT !.op = "debase64_no_pad",
                              !.res = debase64_no_pad(codec.enc)]
    /\ UNCHANGED <<hashVars, api, alpha>>

NextB64 ==
    \/ Base64NoPad
    \/ Debase64NoPad

SpecB64 == InitB64 /\ [][NextB64]_vars

(***************************************************************************)
(* constant_eq step by step: the length test, then the fold over the zip    *)
(* of the two slices, one pair of bytes per step                            *)
(***************************************************************************)
MaxEqLen == 3

EqBytes == {0, 1, 255}

\* a fold that stops at the first difference
eq_more_early(rv, i, n) == i < n /\ rv = 0

\* xs.iter().zip(ys.iter()) has a next pair: i < n, whatever rv is
eq_more(rv, i, n) == i < n

\* a closure that forgets rv
fold_step_last(rv, x, y) == Xor(x, y)

\* the closure of the fold: |rv, (x, y)| rv | (x ^ y)
fold_step(rv, x, y) == Or8(rv, Xor(x, y))

InitEq ==
    /\ HashIdle /\ api = NoApi /\ alpha = NoAlpha
    /\ \E xs \in StringsOver(EqBytes, MaxEqLen) :
       \E ys \in StringsOver(EqBytes, MaxEqLen) :
          codec = [op |-> "constant_eq", pc |-> "entry", xs |-> xs, ys |-> ys,
                   i |-> 0, rv |-> 0, visited |-> <<>>, res |-> FALSE]

\* if xs.len() != ys.len() { false } else { .. fold(0, ..) .. }
EqEnter ==
    /\ codec.op = "constant_eq" /\ codec.pc = "entry"
    /\ codec' = IF Len(codec.xs) # Len(codec.ys)
                THEN [codec EXCEPT !.pc = "ret", !.res = FALSE]
                ELSE [codec EXCEPT !.pc = "fold"]
    /\ UNCHANGED <<hashVars, api, alpha>>

\* one step of the fold, on the pair at position i
EqStep ==
    /\ codec.op = "constant_eq" /\ codec.pc = "fold"
    /\ eq_more(codec.rv, codec.i, Len(codec.xs))
    /\ codec' = [codec EXCEPT
                    !.rv = fold_step(codec.rv, codec.xs[codec.i + 1],
                                     codec.ys[codec.i + 1]),
                    !.visited = Append(codec.visited, codec.i),
                    !.i = codec.i + 1]
    /\ UNCHANGED <<hashVars, api, alpha>>

\* the zip is exhausted: fold(..) == 0
EqReturn ==
    /\ codec.op = "constant_eq" /\ codec.pc = "fold"
    /\ ~eq_more(codec.rv, codec.i, Len(codec.xs))
    /\ codec' = [codec EXCEPT !.pc = "ret", !.res = (codec.rv = 0)]
    /\ UNCHANGED <<hashVars, api, alpha>>

NextEq ==
    \/ EqEnter
    \/ EqStep
    \/ EqReturn

SpecEq == InitEq /\ [][NextEq]_vars

(***************************************************************************)
(* h_prime step by step on a buffer of tau bytes; -1 is a byte of the       *)
(* buffer that has not been written                                         *)
(***************************************************************************)
MaxTau == 130

HpInputs == {<<1>>, <<7, 9>>}

Unwritten == -1

\* out[at..at + bytes.len()].clone_from_slice(bytes)
write_at(buf, at, bytes) ==
    [i \in 1..Len(buf) |->
        IF at < i /\ i <= at + Len(bytes) THEN bytes[i - at] ELSE buf[i]]

InitHPrime ==
    /\ HashIdle /\ api = NoApi /\ alpha = NoAlpha
    /\ \E tau \in 1..MaxTau, input \in HpInputs :
          codec = [op |-> "h_prime", pc |-> "entry", input |-> input,
                   out |-> [i \in 1..tau |-> Unwritten], tmp |-> <<>>,
                   wr_at |-> 0]

\* the test on out.len(): one digest, or the first digest and wr_at = 32
HpEnter ==
    /\ codec.op = "h_prime" /\ codec.pc = "entry"
    /\ codec' =
          IF Len(codec.out) <= DEF_B2HASH_LEN
          THEN [codec EXCEPT
                   !.pc = "ret",
                   !.out = write_at(codec.out, 0,
                                    B2(len32(codec.out) \o codec.input,
                                       Len(codec.out)))]
          ELSE Bind(B2(len32(codec.out) \o codec.input, DEF_B2HASH_LEN),
                    LAMBDA t : [codec EXCEPT
                                   !.pc = "loop", !.tmp = t,
                                   !.out = write_at(codec.out, 0, t),
                                   !.wr_at = 32])
    /\ UNCHANGED <<hashVars, api, alpha>>

\* one iteration of the while loop
HpLoop ==
    /\ codec.op = "h_prime" /\ codec.pc = "loop"
    /\ Len(codec.out) - codec.wr_at > DEF_B2HASH_LEN
    /\ codec' = Bind(B2(codec.tmp, DEF_B2HASH_LEN),
                     LAMBDA t : [codec EXCEPT
                                    !.tmp = t,
                                    !.out = write_at(codec.out, codec.wr_at, t),
                                    !.wr_at = wr_next(codec.wr_at)])
    /\ UNCHANGED <<hashVars, api, alpha>>

\* after the loop: the last digest, of out.len() - wr_at bytes
HpLast ==
    /\ codec.op = "h_prime" /\ codec.pc = "loop"
    /\ ~(Len(codec.out) - codec.wr_at > DEF_B2HASH_LEN)
    /\ codec' = [codec EXCEPT
                    !.pc = "ret",
                    !.out = write_at(codec.out, codec.wr_at,
                                     B2(codec.tmp, Len(codec.out) - codec.wr_at))]
    /\ UNCHANGED <<hashVars, api, alpha>>

NextHPrime ==
    \/ HpEnter
    \/ HpLoop
    \/ HpLast

SpecHPrime == InitHPrime /\ [][NextHPrime]_vars

(***************************************************************************)
(* Workers::new(lanes).map(blocks, f) in its three builds: the scoped       *)
(* thread pool (workers/threadpool.rs, and workers.rs with the feature      *)
(* "threaded"), the loop of workers.rs without the feature, and             *)
(* workers/no_threadpool.rs                                                 *)
(***************************************************************************)
MaxWorkers == 4

WorkerBuilds == {"threadpool", "threaded_off", "no_threadpool"}

\* Workers::new(lanes): the value built, or the panic of unreachable!()
Workers_new(build, lanes) ==
    IF build = "threadpool"
    THEN [st |-> "ready", pool |-> (lanes # 1)]
    ELSE IF build = "threaded_off"
    THEN [st |-> "ready", pool |-> FALSE]
    ELSE IF lanes = 1 THEN [st |-> "ready", pool |-> FALSE]
    ELSE [st |-> "panic", pool |-> FALSE]

\* the arm of map that is taken
map_arm(build, lanes, pool) ==
    IF build = "threadpool"
    THEN (IF lanes = 1 THEN "direct" ELSE IF pool THEN "scoped" ELSE "unreachable")
    ELSE IF build = "threaded_off" THEN "loop"
    ELSE "direct"

\* the lanes the caller's thread goes through: f(blocks, 0), or 0..lanes
caller_lanes(arm, lanes) == IF arm = "direct" THEN 1 ELSE lanes

NoCall == [started |-> 0, returned |-> 0, caller |-> FALSE]

InitWorkers ==
    /\ HashIdle /\ api = NoApi /\ alpha = NoAlpha
    /\ \E b \in WorkerBuilds, n \in 1..MaxWorkers :
          codec = [op |-> "workers", build |-> b, lanes |-> n, st |-> "init",
                   pool |-> FALSE, arm |-> "none", next |-> 0,
                   queued |-> {}, running |-> {},
                   calls |-> [l \in 0..n |-> NoCall]]

\* Workers::new(lanes)
WorkersNew ==
    /\ codec.op = "workers" /\ codec.st = "init"
    /\ codec' = Bind(Workers_new(codec.build, codec.lanes),
                     LAMBDA w : [codec EXCEPT !.st = w.st, !.pool = w.pool])
    /\ UNCHANGED <<hashVars, api, alpha>>

\* map is entered: match self
MapEnter ==
    /\ codec.op = "workers" /\ codec.st = "ready"
    /\ codec' = Bind(map_arm(codec.build, codec.lanes, codec.pool),
                     LAMBDA a : [codec EXCEPT
                                    !.arm = a,
                                    !.st = IF a = "unreachable" THEN "panic"
                                           ELSE "map"])
    /\ UNCHANGED <<hashVars, api, alpha>>

\* f(blocks, lane) is called on the caller's thread
CallerCall ==
    /\ codec.op = "workers" /\ codec.st = "map"
    /\ codec.arm \in {"direct", "loop"}
    /\ codec.next < caller_lanes(codec.arm, codec.lanes)
    /\ codec' = [codec EXCEPT
                    !.st = "in_f",
                    !.calls[codec.next].started = @ + 1,
                    !.calls[codec.next].caller = TRUE]
    /\ UNCHANGED <<hashVars, api, alpha>>

\* and returns
CallerReturn ==
    /\ codec.op = "workers" /\ codec.st = "in_f"
    /\ codec' = [codec EXCEPT
                    !.st = "map",
                    !.calls[codec.next].returned = @ + 1,
                    !.next = @ + 1]
    /\ UNCHANGED <<hashVars, api, alpha>>

\* sc.execute(move || f(m, lane)) for the next lane of 0..lanes
Execute ==
    /\ codec.op = "workers" /\ codec.st = "map" /\ codec.arm = "scoped"
    /\ codec.next < codec.lanes
    /\ codec' = [codec EXCEPT !.queued = @ \cup {codec.next},
                              !.next = @ + 1]
    /\ UNCHANGED <<hashVars, api, alpha>>

\* a thread of the pool takes a job and calls f
PoolCall(l) ==
    /\ codec.op = "workers" /\ l \in codec.queued
    /\ codec' = [codec EXCEPT !.queued = @ \ {l},
                              !.running = @ \cup {l},
                              !.calls[l].started = @ + 1]
    /\ UNCHANGED <<hashVars, api, alpha>>

\* f returns on the thread of the pool
PoolReturn(l) ==
    /\ codec.op = "workers" /\ l \in codec.running
    /\ codec' = [codec EXCEPT !.running = @ \ {l},
                              !.calls[l].returned = @ + 1]
    /\ UNCHANGED <<hashVars, api, alpha>>

\* map returns: the loop or the call is over, or pool.scoped has joined
\* every job
MapReturn ==
    /\ codec.op = "workers" /\ codec.st = "map"
    /\ codec.next = caller_lanes(codec.arm, codec.lanes)
    /\ codec.queued = {} /\ codec.running = {}
    /\ codec' = [codec EXCEPT !.st = "returned"]
    /\ UNCHANGED <<hashVars, api, alpha>>

NextWorkers ==
    \/ WorkersNew
    \/ MapEnter
    \/ CallerCall
    \/ CallerReturn
    \/ Execute
    \/ \E l \in 0..(MaxWorkers - 1) : PoolCall(l)
    \/ \E l \in 0..(MaxWorkers - 1) : PoolReturn(l)
    \/ MapReturn

SpecWorkers == InitWorkers /\ [][NextWorkers]_vars

(***************************************************************************)
(* Properties of hash_impl                                                  *)
(***************************************************************************)
\* the position of the current slice in the order pass 0: 0,1,2,3; pass 1: ...
Round == pass * SLICES_PER_LANE + slice

\* C3: whatever the interleaving of the lane workers, the matrix handed to
\* pass_fn after each pass and the tag are those of the sequential execution
\* that fills lanes 0..L-1 one after the other in each slice; the tag is
\* therefore a function of the record and the inputs alone.
C3_Deterministic ==
    /\ mainPc = "pass_fn" => blocks = seq_matrix(argon, h0buf, pass)
    /\ mainPc \in {"drop", "done"} =>
           out = hash(argon, inp.outlen, inp.p, inp.s, inp.k, inp.x)

\* a finished two-pass hash over several lanes whose very last block was
\* written by lane 0, i.e. after the last lane had already finished
C3_Witness ==
    /\ mainPc = "done"
    /\ argon.lanes >= 2 /\ argon.passes >= 2
    /\ lastFill.valid /\ lastFill.lane = 0
    /\ out = hash(argon, inp.outlen, inp.p, inp.s, inp.k, inp.x)

\* C4: slices are processed in the order pass 0: 0..3, pass 1: 0..3, ...;
\* no lane starts the next slice before every lane has finished the current
\* one, and slice 0 of pass 0 (seeding included) is complete in every lane
\* before any lane starts slice 1.
C4_SliceBarrier ==
    mainPc \notin {"entry", "panic"} =>
        /\ \A l \in Lanes :
              /\ started[l] \in {Round, Round + 1}
              /\ finished[l] <= started[l]
              /\ worker[l].pc # "idle" =>
                    worker[l].pass * SLICES_PER_LANE + worker[l].slice
                        = started[l] - 1
              /\ Running(l) => worker[l].pass = pass /\ worker[l].slice = slice
        /\ \A l1, l2 \in Lanes : started[l1] <= finished[l2] + 1
        /\ \A l \in Lanes : started[l] >= 2 =>
              \A l2 \in Lanes : \A c \in 0..(SliceLen - 1) : stamp[<<l2, c>>] >= 0

\* in slice 2 of pass 1, lane 0 has finished and waits while lane 1 still fills
C4_Witness ==
    /\ mainPc = "spawn" /\ argon.lanes = 2 /\ nspawn = 2
    /\ pass = 1 /\ slice = 2
    /\ worker[0].pc = "done" /\ finished[0] = Round + 1
    /\ worker[1].pc = "fill" /\ finished[1] = Round

(***************************************************************************)
(* Properties of fill_block and get3, for every (J1, J2)                    *)
(***************************************************************************)
SliceOf(col) == col \div SliceLen

CrossLane(f) == f.valid /\ f.ref[1] # f.lane

\* C5: a reference block taken from another lane never lies in the slice
\* being filled: in pass 0 it lies in an earlier slice (written in pass 0);
\* in a later pass it lies in an earlier slice, written in the current pass,
\* or in a later slice, last written in the previous pass.  Pass 0 slice 0
\* never reads another lane.
C5_CrossLaneReads ==
    CrossLane(lastFill) =>
        LET f  == lastFill
            rs == SliceOf(f.ref[2])
        IN  /\ ~(f.pass = 0 /\ f.slice = 0)
            /\ rs # f.slice
            /\ f.pass = 0 => rs < f.slice /\ f.refStamp = 0
            /\ (f.pass > 0 /\ rs < f.slice) => f.refStamp = f.pass
            /\ (f.pass > 0 /\ rs > f.slice) => f.refStamp = f.pass - 1

\* in pass 1 a lane reads, from another lane, a block of a later slice that
\* pass 0 wrote, while that other lane is still filling the current slice
C5_Witness ==
    /\ CrossLane(lastFill)
    /\ lastFill.pass = 1 /\ lastFill.slice = 1
    /\ SliceOf(lastFill.ref[2]) > lastFill.slice
    /\ lastFill.refStamp = 0
    /\ worker[lastFill.ref[1]].pc = "fill"
    /\ worker[lastFill.ref[1]].idx > 0

\* C7: the three coordinates handed to get3 are the current block, its
\* predecessor in the lane and the reference block; they are pairwise
\* distinct and inside the matrix, and the assertion of get3 never fails.
C7_Get3Distinct ==
    /\ mainPc \notin {"entry", "panic"} =>
          \A l \in Lanes : worker[l].pc # "panic"
    /\ lastFill.valid =>
          LET f == lastFill
          IN  /\ f.cur = <<f.lane, f.slice * SliceLen + f.idx>>
              /\ f.pre = <<f.lane, prev(argon, f.cur[2])>>
              /\ f.cur # f.pre /\ f.cur # f.ref /\ f.pre # f.ref
              /\ in_matrix(argon, f.cur)
              /\ in_matrix(argon, f.pre)
              /\ in_matrix(argon, f.ref)

\* column 0 is rewritten in pass 1: its predecessor is the last column and
\* the reference is the column before that, all in the same lane
C7_Witness ==
    /\ lastFill.valid /\ lastFill.pass = 1
    /\ lastFill.cur[2] = 0
    /\ lastFill.pre = <<lastFill.lane, argon.lanelen - 1>>
    /\ lastFill.ref = <<lastFill.lane, argon.lanelen - 2>>

C1_NewValidates ==
    api.op = "new" =>
        /\ api.passes < 1 => api.res = [ok |-> FALSE, err |-> <<"TooFewPasses">>]
        /\ (api.passes >= 1 /\ api.lanes < 1) =>
              api.res = [ok |-> FALSE, err |-> <<"TooFewLanes">>]
        /\ (api.passes >= 1 /\ api.lanes >= 1 /\ api.kib \div 8 < api.lanes) =>
              /\ ~api.res.ok
              /\ api.res.err[1] = "MinKiB"
              /\ Len(api.res.err[2]) = 8
              /\ api.lanes < BigLanes => WValue(api.res.err[2]) = 8 * api.lanes
              /\ api.lanes = BigLanes => api.res.err[2] = TwoTo32
        /\ (api.passes >= 1 /\ api.lanes >= 1 /\ api.kib \div 8 >= api.lanes) =>
              /\ api.res.ok
              /\ api.res.passes = api.passes /\ api.res.lanes = api.lanes
              /\ api.res.kib = api.kib /\ api.res.variant = api.variant
        /\ api.passes = 0 => api.res.err = <<"TooFewPasses">>
        /\ (api.passes >= 1 /\ api.lanes = 4 /\ api.kib = 16) =>
              api.res.err = <<"MinKiB", U64(32)>>

\* 2^29 lanes with the largest kib: 8*lanes is 2^32, above every u32, and the
\* call is refused with MinKiB(2^32)
C1_Witness ==
    /\ api.op = "new" /\ api.passes >= 1
    /\ api.lanes = BigLanes /\ api.kib = BigKiB
    /\ api.res = [ok |-> FALSE, err |-> <<"MinKiB", TwoTo32>>]

\* C2: argon2i_simple and argon2d_simple hash with passes = 3, lanes = 1,
\* kib = 4096 and return a tag of 64 bytes for every password and salt;
\* Argon2::default succeeds and yields kib = 4096.
C2_SimpleDefaults ==
    /\ api.op = "default" =>
          /\ api.res.ok
          /\ api.res.passes = PASSES /\ api.res.lanes = LANES
          /\ api.res.kib = KIB
    /\ api.op = "simple" => api.res.ok /\ Len(api.res.tag) = LENGTH

\* C17: for every record new accepts, lanelen is a multiple of 4 and at
\* least 8, and lanes * lanelen <= kib (stated as lanelen <= kib / lanes, so
\* that no product is formed); the matrix has a block for each of the
\* lanes * lanelen coordinates.
C17_LaneLength ==
    (api.op = "new" /\ api.res.ok) =>
        /\ api.res.lanelen % 4 = 0
        /\ api.res.lanelen >= 8
        /\ api.res.lanelen <= api.kib \div api.lanes
        /\ api.lanes <= api.kib \div 8
        /\ 4 * api.lanes <= api.kib
        /\ api.res.lanelen = (api.kib \div (4 * api.lanes)) * 4
        /\ api.kib <= 64 =>
              /\ api.res.lanes * api.res.lanelen <= api.kib
              /\ Cardinality(DOMAIN Matrix_new(api.res.lanes, api.res.lanelen))
                     = api.res.lanes * api.res.lanelen

\* kib = 33 over 2 lanes: 33 / 8 * 4 = 16 columns, 32 blocks, one KiB unused
C17_Witness ==
    /\ api.op = "new" /\ api.res.ok
    /\ api.kib = 33 /\ api.lanes = 2
    /\ api.res.lanelen = 16
    /\ Cardinality(DOMAIN Matrix_new(api.res.lanes, api.res.lanelen)) = 32

(***************************************************************************)
(* Properties of the Verifier                                               *)
(***************************************************************************)
\* C8: a Verifier decoded from a PHC string whose hash field is the tag, of
\* any length from 4 bytes on, of the password under the parameters, salt,
\* key and data of the string, verifies that password; verify returns a
\* boolean.
C8_VerifyTagged ==
    /\ (codec.op = "from_u8" /\ codec.origin = "tagged") => codec.st = "ok"
    /\ (codec.op = "verify" /\ codec.origin = "tagged") =>
          /\ codec.st \in {"true", "false"}
          /\ codec.pw = S_pw => codec.st = "true"

\* C9: from_u8(to_u8(v)) succeeds for every Verifier v built by
\* Verifier::new, key and data each empty or not, and yields the fields of v.
C9_EncodeDecode ==
    (codec.op = "from_u8" /\ codec.origin = "new") =>
        /\ codec.st = "ok"
        /\ codec.v = codec.v0

\* C10: from_u8 succeeds on every string of the grammar with valid
\* parameters, each optional field present or absent, and to_u8 of the
\* result is the string again.
C10_DecodeEncode ==
    (codec.op # "none" /\ codec.origin = "grammar") =>
        /\ codec.op = "from_u8" => codec.st = "ok"
        /\ codec.op = "to_u8" => codec.enc = codec.s0

\* C12: from_u8 returns a Verifier or a DecodeError on every input, the
\* empty string, cut strings and strings with garbage included: it never
\* panics.
C12_NeverPanics ==
    codec.op = "from_u8" => codec.st \in {"ok", "ParseError", "InvalidParams"}

\* C13: the offset of a ParseError is that of the first byte that no string
\* of the grammar has at its place, or the length of an input cut short.
C13_ErrorOffset ==
    (codec.op = "from_u8" /\ codec.st = "ParseError" /\ codec.bad >= 0) =>
        codec.pos = codec.bad

C18_DropZeroes ==
    /\ mainPc \in {"done", "entry", "panic"} =>
          \A rc \in DOMAIN blocks : blocks[rc] = zero
    /\ mainPc = "done" =>
          /\ DOMAIN blocks =
                (0..(argon.lanes - 1)) \X (0..(argon.lanelen - 1))
          /\ Cardinality(DOMAIN blocks) = argon.lanes * argon.lanelen
    /\ (mainPc = "spawn" /\ calls = <<h0_call(h0buf)>> /\ nspawn = 0
        /\ pass = 0 /\ slice = 0) =>
          blocks = Matrix_new(argon.lanes, argon.lanelen)

\* a second call is about to start after a first one that filled every
\* block of a matrix of several lanes
C18_Witness ==
    /\ mainPc = "entry" /\ blocks # <<>>
    /\ argon.lanes >= 2
    /\ \A rc \in DOMAIN blocks : blocks[rc] = zero

\* C20: h0_fn is called once, with the 72 bytes of h0, before any block is
\* written; pass_fn(p) is called once per pass, p = 0, 1, .., passes - 1 in
\* this order, after the four slices of pass p are complete in every lane
\* and before any block is written in pass p + 1; the tag is written after
\* the last call.
C20_Callbacks ==
    mainPc # "panic" =>
        /\ calls = <<>> => mainPc = "entry" /\ stamp = <<>>
        /\ calls # <<>> =>
              /\ calls[1] = <<"h0_fn", 72>>
              /\ h0buf # <<>> /\ Len(h0buf) = 72
              /\ \A i \in 2..Len(calls) : calls[i] = <<"pass_fn", i - 2>>
              /\ Len(calls) - 1 <= argon.passes
              /\ Len(calls) - 1 =
                    (IF mainPc \in {"h_prime", "drop", "done"}
                     THEN pass + 1 ELSE pass)
              /\ \A rc \in DOMAIN stamp : stamp[rc] <= Len(calls) - 1
              /\ \A l \in Lanes :
                    finished[l] >= SLICES_PER_LANE * (Len(calls) - 1)
        /\ out # <<>> => Len(calls) = 1 + argon.passes

\* the tag of a two-pass hash over several lanes has been written, after
\* h0_fn, pass_fn(0) and pass_fn(1)
C20_Witness ==
    /\ mainPc = "drop" /\ out # <<>>
    /\ argon.passes = 2 /\ argon.lanes >= 2
    /\ calls = <<(<<"h0_fn", 72>>), (<<"pass_fn", 0>>), (<<"pass_fn", 1>>)>>

(***************************************************************************)
(* Properties of the slice fills                                            *)
(***************************************************************************)
Seeded(rc) == rc[2] < 2

RECURSIVE SumG(_)
\* the number of runs of g, over a set of blocks
SumG(rcs) ==
    IF rcs = {} THEN 0
    ELSE LET rc == CHOOSE x \in rcs : TRUE
         IN  writes[rc].g + SumG(rcs \ {rc})

\* C22: a slice fill runs once for every pass, slice and lane.  In pass 0
\* the columns 0 and 1 of a lane are written by h_prime and every other
\* block once by g; in every later pass every block is written once by g.
\* g runs passes * lanes * lanelen - 2 * lanes times.
C22_EveryBlockOnce ==
    mainPc \in {"spawn", "pass_fn", "h_prime", "drop", "done"} =>
        /\ \A rc \in DOMAIN writes :
              /\ stamp[rc] \in {pass - 1, pass}
              /\ writes[rc].h = (IF Seeded(rc) /\ stamp[rc] >= 0 THEN 1 ELSE 0)
              /\ writes[rc].g = stamp[rc] + 1 - writes[rc].h
        /\ \A l \in Lanes :
              /\ finished[l] <= started[l] /\ started[l] <= finished[l] + 1
              /\ worker[l].pc # "idle" =>
                    worker[l].pass * SLICES_PER_LANE + worker[l].slice
                        = started[l] - 1
        /\ mainPc # "spawn" =>
              /\ \A rc \in DOMAIN writes : stamp[rc] = pass
              /\ \A l \in Lanes :
                    finished[l] = SLICES_PER_LANE * (pass + 1)
        /\ mainPc \in {"h_prime", "drop", "done"} =>
              /\ pass = argon.passes - 1
              /\ SumG(DOMAIN writes) =
                    argon.passes * argon.lanes * argon.lanelen - 2 * argon.lanes

\* a hash of two passes over two lanes is complete: the seeded blocks were
\* written once by h_prime and once by g, the others twice by g
C22_Witness ==
    /\ mainPc = "done"
    /\ argon.passes = 2 /\ argon.lanes = 2
    /\ writes[<<1, 0>>] = [h |-> 1, g |-> 1]
    /\ writes[<<1, 2>>] = [h |-> 0, g |-> 2]
    /\ SumG(DOMAIN writes) = 2 * 2 * argon.lanelen - 4

\* the block a worker is about to write: column 0 or 1 while it seeds, the
\* column of its slice at idx while it is in the loop of fill_slice
NextWrite(l) ==
    <<l, IF worker[l].pc = "seed0" THEN 0
         ELSE IF worker[l].pc = "seed1" THEN 1
         ELSE worker[l].slice * SliceLen + worker[l].idx>>

\* C23: fill_slice(pass, l, s, offset) writes the blocks (l, s * slicelen + i)
\* for i from offset to slicelen - 1, in this order and each once, and no
\* other block of the matrix; hashing leaves the parameter record as it is.
C23_FillSliceFrame ==
    [][/\ mainPc # "off" => argon' = argon
       /\ (mainPc = "spawn" /\ mainPc' = "spawn"
           /\ (blocks' # blocks \/ writes' # writes)) =>
             \E l \in Lanes :
                /\ Running(l)
                /\ worker[l].pc = "fill" =>
                      /\ worker[l].pass = pass /\ worker[l].slice = slice
                      /\ worker[l].idx >= (IF pass = 0 /\ slice = 0 THEN 2 ELSE 0)
                      /\ worker[l].idx < SliceLen
                      /\ worker'[l].idx = worker[l].idx + 1
                      /\ writes'[NextWrite(l)].g = writes[NextWrite(l)].g + 1
                /\ writes'[NextWrite(l)] # writes[NextWrite(l)]
                /\ \A rc \in DOMAIN blocks :
                      rc # NextWrite(l) =>
                          blocks'[rc] = blocks[rc] /\ writes'[rc] = writes[rc]
      ]_vars

\* lane 1 has written the last block of slice 2 in pass 1 while lane 0 is
\* still at work in its own slice
C23_Witness ==
    /\ lastFill.valid /\ lastFill.lane = 1 /\ lastFill.pass = 1
    /\ lastFill.slice = 2 /\ lastFill.idx = SliceLen - 1
    /\ argon.lanes = 2 /\ worker[0].pc = "fill" /\ worker[0].idx > 0

\* C24: a hash on a record new accepted, with an output length from 4 to
\* 2^32 - 1, terminates: every round of lane workers is joined, and the tag
\* is written to out.
C24_Terminates ==
    (mainPc = "entry" /\ out_len_ok(inp.len)) ~>
        (mainPc = "done" /\ Len(out) = inp.outlen
         /\ \A l \in Lanes : finished[l] = SLICES_PER_LANE * argon.passes)

\* the last round of a hash of two passes over two lanes has been joined
\* and the tag is written
C24_Witness ==
    /\ mainPc = "done" /\ Len(out) = 4
    /\ argon.passes = 2 /\ argon.lanes = 2
    /\ finished = [l \in Lanes |-> 8]
    /\ \A l \in Lanes : worker[l].pc = "done"

(***************************************************************************)
(* Properties of base64_no_pad and debase64_no_pad                          *)
(***************************************************************************)
InAlphabet(c) ==
    \/ c \in 65..90 \/ c \in 97..122 \/ c \in 48..57 \/ c = 43 \/ c = 47

\* C11: debase64_no_pad(base64_no_pad(b)) succeeds and returns b for every
\* byte string b, the empty one included; debase64_no_pad fails on every
\* input of a length that is 1 mod 4 and on every input with a byte outside
\* the alphabet.
C11_Base64RoundTrip ==
    codec.op = "debase64_no_pad" =>
        /\ codec.origin = "bytes" => codec.res = Some(codec.b)
        /\ (codec.origin = "text"
            /\ (\/ Len(codec.enc) % 4 = 1
                \/ \E i \in DOMAIN codec.enc : ~InAlphabet(codec.enc[i])))
           => codec.res = None

\* the same without the empty string
C11_NonEmptyRoundTrip ==
    (codec.op = "debase64_no_pad" /\ codec.enc # <<>>) =>
        /\ codec.origin = "bytes" => codec.res = Some(codec.b)
        /\ (codec.origin = "text"
            /\ (\/ Len(codec.enc) % 4 = 1
                \/ \E i \in DOMAIN codec.enc : ~InAlphabet(codec.enc[i])))
           => codec.res = None

(***************************************************************************)
(* Properties of constant_eq                                                *)
(***************************************************************************)
\* C15: constant_eq returns false when the lengths differ, and for equal
\* lengths, zero included, true exactly when the two slices are equal byte
\* for byte.
C15_ConstantEq ==
    (codec.op = "constant_eq" /\ codec.pc = "ret") =>
        /\ Len(codec.xs) # Len(codec.ys) => codec.res = FALSE
        /\ Len(codec.xs) = Len(codec.ys) =>
              (codec.res <=> \A k \in DOMAIN codec.xs : codec.xs[k] = codec.ys[k])
        /\ codec.res = constant_eq(codec.xs, codec.ys)

\* two slices of the same length that differ in the first byte only were
\* found different
C15_Witness ==
    /\ codec.op = "constant_eq" /\ codec.pc = "ret"
    /\ Len(codec.xs) = MaxEqLen /\ Len(codec.ys) = MaxEqLen
    /\ codec.xs[1] # codec.ys[1]
    /\ \A k \in 2..MaxEqLen : codec.xs[k] = codec.ys[k]
    /\ codec.res = FALSE

\* C16: on inputs of equal length n, constant_eq visits the positions
\* 0, 1, .., n - 1, each once, and does not stop at the first difference:
\* the steps taken are the same for all contents of that length.
C16_VisitsAll ==
    (codec.op = "constant_eq" /\ Len(codec.xs) = Len(codec.ys)) =>
        /\ codec.visited = [k \in 1..Len(codec.visited) |-> k - 1]
        /\ codec.pc = "fold" => Len(codec.visited) = codec.i
        /\ codec.pc = "ret" => Len(codec.visited) = Len(codec.xs)

\* a comparison that met a difference at position 0 has returned after
\* visiting every position
C16_Witness ==
    /\ codec.op = "constant_eq" /\ codec.pc = "ret"
    /\ Len(codec.xs) = MaxEqLen /\ Len(codec.ys) = MaxEqLen
    /\ codec.xs[1] # codec.ys[1]
    /\ codec.visited = [k \in 1..MaxEqLen |-> k - 1]

(***************************************************************************)
(* Properties of h_prime                                                    *)
(***************************************************************************)
\* V1 = H(le32(tau) || input, 64), Vi = H(V(i-1), 64)
RECURSIVE V(_, _, _)
V(i, tau, input) ==
    IF i = 1 THEN B2(as32le(tau) \o input, DEF_B2HASH_LEN)
    ELSE B2(V(i - 1, tau, input), DEF_B2HASH_LEN)

RECURSIVE VHeads(_, _, _)
\* V1[0..32] || V2[0..32] || .. || Vr[0..32]
VHeads(r, tau, input) ==
    IF r = 0 THEN <<>>
    ELSE VHeads(r - 1, tau, input) \o SubSeq(V(r, tau, input), 1, 32)

\* r = ceil(tau / 32) - 2
VCount(tau) == (tau + 31) \div 32 - 2

\* C19: h_prime writes all tau bytes of out.  For tau <= 64 they are
\* H(le32(tau) || input, tau); for tau > 64, with r = ceil(tau / 32) - 2,
\* they are V1[0..32] || .. || Vr[0..32] || H(Vr, tau - 32 r), the last
\* piece of 33 to 64 bytes.
C19_HPrime ==
    (codec.op = "h_prime" /\ codec.pc = "ret") =>
        LET tau == Len(codec.out)
            r == VCount(tau)
        IN  /\ \A i \in 1..tau : codec.out[i] \in 0..255
            /\ codec.out = h_prime(tau, codec.input)
            /\ tau <= 64 => codec.out = B2(as32le(tau) \o codec.input, tau)
            /\ tau > 64 =>
                  /\ tau - 32 * r \in 33..64
                  /\ codec.out = VHeads(r, tau, codec.input)
                                 \o B2(V(r, tau, codec.input), tau - 32 * r)

\* h_prime has returned from a buffer of 129 bytes: V1, V2 and V3 and a
\* last piece of 33 bytes
C19_Witness ==
    /\ codec.op = "h_prime" /\ codec.pc = "ret"
    /\ Len(codec.out) = 129 /\ codec.wr_at = 96
    /\ codec.tmp = V(3, 129, codec.input)

(***************************************************************************)
(* Properties of Workers                                                    *)
(***************************************************************************)
\* what a map that has returned has done: f once for each lane of
\* 0..lanes - 1 and for no other, with one lane on the caller's thread and
\* without a pool
MapDone ==
    codec.st = "returned" =>
        /\ \A l \in 0..(codec.lanes - 1) :
              codec.calls[l].started = 1 /\ codec.calls[l].returned = 1
        /\ codec.calls[codec.lanes] = NoCall
        /\ codec.lanes = 1 => ~codec.pool /\ codec.calls[0].caller

\* C21: Workers::new(L) succeeds for every L >= 1, and map calls f once for
\* each lane of 0..L-1, for no other lane, and returns after all the calls
\* have; with L = 1 the call is made on the caller's thread, without a pool.
C21_WorkersMap ==
    codec.op = "workers" =>
        /\ codec.st # "panic"
        /\ MapDone

\* the same in the builds other than workers/no_threadpool.rs
C21_PoolOrLoop ==
    (codec.op = "workers" /\ codec.build # "no_threadpool") =>
        /\ codec.st # "panic"
        /\ MapDone

(***************************************************************************)
(* octword.rs: u64x2 and its operations.  A u64 is its eight bytes, the     *)
(* least significant first (U64); a u64x2 is the pair of its two lanes, and *)
(* transmute to u8x16 lays the bytes of lane 0 before those of lane 1.      *)
(***************************************************************************)
u64x2(a, b) == <<a, b>>

\* the eight bytes F(1), .., F(8) of a u64
Bytes8(F(_)) == <<F(1), F(2), F(3), F(4), F(5), F(6), F(7), F(8)>>

\* transmute::<u64x2, u8x16>
as_u8x16(o) == o[1] \o o[2]

\* transmute::<u8x16, u64x2>
as_u64x2(x) == <<SubSeq(x, 1, 8), SubSeq(x, 9, 16)>>

\* 2^k as a u64, 0 <= k < 64
TwoPow(k) == Bytes8(LAMBDA i : IF i = (k \div 8) + 1 THEN 2^(k % 8) ELSE 0)

\* lane-wise wrapping a + b
\* u64::wrapping_add, wrapping_mul and ^
wrapping_add(a, b) == WCarry(Bytes8(LAMBDA i : a[i] + b[i]), 0)

wrapping_mul(a, b) == SubSeq(WMul(a, b), 1, 8)

xor_u64(a, b) == Bytes8(LAMBDA i : XorW(a[i], b[i], 8))

\* x << k, 0 <= k < 64: the low 64 bits of x * 2^k
shl_u64(x, k) == SubSeq(WMul(x, TwoPow(k)), 1, 8)

\* x >> n, 0 < n < 64: the high 64 bits of x * 2^(64 - n)
shr_u64(x, n) == SubSeq(WMul(x, TwoPow(64 - n)), 9, 16)

\* the simd_* intrinsics work lane by lane
simd_add(a, b) == u64x2(wrapping_add(a[1], b[1]), wrapping_add(a[2], b[2]))

simd_mul(a, b) == u64x2(wrapping_mul(a[1], b[1]), wrapping_mul(a[2], b[2]))

simd_xor(a, b) == u64x2(xor_u64(a[1], b[1]), xor_u64(a[2], b[2]))

simd_shl(x, k) == u64x2(shl_u64(x[1], k[1]), shl_u64(x[2], k[2]))

simd_shr(x, n) == u64x2(shr_u64(x[1], n[1]), shr_u64(x[2], n[2]))

\* byte i of the result is byte idx[i] of x (both operands are self)
simd_shuffle16(x, idx) ==
    Bytes8(LAMBDA i : x[idx[i] + 1]) \o Bytes8(LAMBDA i : x[idx[i + 8] + 1])

rotr_32_u64x2(x) ==
    as_u64x2(simd_shuffle16(x, <<4, 5, 6, 7, 0, 1, 2, 3,
                                 12, 13, 14, 15, 8, 9, 10, 11>>))

\* a shuffle that rotates towards the most significant byte
rotl_24_u64x2(x) ==
    as_u64x2(simd_shuffle16(x, <<5, 6, 7, 0, 1, 2, 3, 4,
                                 13, 14, 15, 8, 9, 10, 11, 12>>))

rotr_24_u64x2(x) ==
    as_u64x2(simd_shuffle16(x, <<3, 4, 5, 6, 7, 0, 1, 2,
                                 11, 12, 13, 14, 15, 8, 9, 10>>))

rotr_16_u64x2(x) ==
    as_u64x2(simd_shuffle16(x, <<2, 3, 4, 5, 6, 7, 0, 1,
                                 10, 11, 12, 13, 14, 15, 8, 9>>))

rotr_8_u64x2(x) ==
    as_u64x2(simd_shuffle16(x, <<1, 2, 3, 4, 5, 6, 7, 0,
                                 9, 10, 11, 12, 13, 14, 15, 8>>))

\* _mm_mul_epu32 on the u32x4 views: elements 0 and 2, the low halves of the
\* two lanes, multiplied to 64 bits
x86_mm_mul_epu32(lhs, rhs) ==
    u64x2(WMul(SubSeq(lhs[1], 1, 4), SubSeq(rhs[1], 1, 4)),
          WMul(SubSeq(lhs[2], 1, 4), SubSeq(rhs[2], 1, 4)))

lower_mult(a, r) == x86_mm_mul_epu32(a, r)

rotate_right(o, n) ==
    IF n = 32 THEN rotr_32_u64x2(as_u8x16(o))
    ELSE IF n = 24 THEN rotr_24_u64x2(as_u8x16(o))
    ELSE IF n = 16 THEN rotr_16_u64x2(as_u8x16(o))
    ELSE IF n = 8 THEN rotr_8_u64x2(as_u8x16(o))
    ELSE simd_xor(simd_shl(o, <<64 - n, 64 - n>>), simd_shr(o, <<n, n>>))

\* a cross_swap that interleaves without crossing
cross_swap_straight(a, r) == <<u64x2(a[1], r[1]), u64x2(a[2], r[2])>>

cross_swap(a, r) == <<u64x2(r[2], a[1]), u64x2(a[2], r[1])>>

(***************************************************************************)
(* The permutation P in its two formulations: lib.rs on eight octwords,     *)
(* argon2.rs on sixteen u64.  Where the two files use one name, the         *)
(* definitions of argon2.rs end in _u64.                                    *)
(***************************************************************************)
Two == u64x2(U64(2), U64(2))

\* a + b + a.lower_mult(b) * u64x2(2, 2)
mix(a, b) == simd_add(simd_add(a, b), simd_mul(lower_mult(a, b), Two))

\* g_blake2b!(a, b, c, d) of lib.rs: the four octwords after the macro
g_blake2b(a, b, c, d) ==
    Bind(mix(a, b), LAMBDA a1 :
    Bind(rotate_right(simd_xor(d, a1), 32), LAMBDA d1 :
    Bind(mix(c, d1), LAMBDA c1 :
    Bind(rotate_right(simd_xor(b, c1), 24), LAMBDA b1 :
    Bind(mix(a1, b1), LAMBDA a2 :
    Bind(rotate_right(simd_xor(d1, a2), 16), LAMBDA d2 :
    Bind(mix(c1, d2), LAMBDA c2 :
    Bind(rotate_right(simd_xor(b1, c2), 63), LAMBDA b2 :
      <<a2, b2, c2, d2>>))))))))

\* p!(v0v1, v2v3, v4v5, v6v7, v8v9, v10v11, v12v13, v14v15) of lib.rs
p(v) ==
    \* g_blake2b!(v0v1, v4v5, v8v9, v12v13); g_blake2b!(v2v3, v6v7, ..)
    Bind(g_blake2b(v[1], v[3], v[5], v[7]), LAMBDA c1 :
    Bind(g_blake2b(v[2], v[4], v[6], v[8]), LAMBDA c2 :
    \* (v7v4, v5v6) and (v15v12, v13v14)
    Bind(cross_swap(c1[2], c2[2]), LAMBDA s1 :
    Bind(cross_swap(c1[4], c2[4]), LAMBDA s2 :
    \* g_blake2b!(v0v1, v5v6, v10v11, v15v12)
    Bind(g_blake2b(c1[1], s1[2], c2[3], s2[1]), LAMBDA d1 :
    \* g_blake2b!(v2v3, v7v4, v8v9, v13v14)
    Bind(g_blake2b(c2[1], s1[1], c1[3], s2[2]), LAMBDA d2 :
    \* v5v6.cross_swap(v7v4) and v13v14.cross_swap(v15v12)
    Bind(cross_swap(d1[2], d2[2]), LAMBDA u1 :
    Bind(cross_swap(d2[4], d1[4]), LAMBDA u2 :
      <<d1[1], d2[1], u1[1], u1[2], d2[3], d1[3], u2[1], u2[2]>>))))))))

\* the octwords p_row(row, b) and p_col(col, b) of lib.rs hand to p!
p_row_at(row) == [k \in 1..8 |-> 8 * row + (k - 1)]

p_col_at(col) == [k \in 1..8 |-> 8 * (k - 1) + col]

\* p! on the octwords at the indices at of a block of 64 octwords
p_on(b, at) ==
    Bind(p([k \in 1..8 |-> b[at[k] + 1]]), LAMBDA r :
      [i \in 1..Len(b) |->
          IF \E k \in 1..8 : at[k] + 1 = i
          THEN r[CHOOSE k \in 1..8 : at[k] + 1 = i]
          ELSE b[i]])

p_row(row, b) == p_on(b, p_row_at(row))

p_col(col, b) == p_on(b, p_col_at(col))

\* bit i of a u64, bit 0 the least significant
BitOf(w, i) == (w[(i \div 8) + 1] \div 2^(i % 8)) % 2

\* u64::rotate_right: bit i of the result is bit (i + n) mod 64 of w
rotr64(w, n) ==
    Bytes8(LAMBDA j :
        LET b(k) == BitOf(w, (8 * (j - 1) + k + n) % 64) * 2^k
        IN  b(0) + b(1) + b(2) + b(3) + b(4) + b(5) + b(6) + b(7))

\* w & 0xffffffff
lower32(w) == SubSeq(w, 1, 4) \o <<0, 0, 0, 0>>

\* lower32(a).wrapping_mul(lower32(b)).wrapping_mul(2)
lower_mult_u64(a, b) == wrapping_mul(wrapping_mul(lower32(a), lower32(b)), U64(2))

\* a.wrapping_add(b).wrapping_add(lower_mult(a, b))
mix_u64(a, b) == wrapping_add(wrapping_add(a, b), lower_mult_u64(a, b))

\* g_blake2b!(a, b, c, d) of argon2.rs
g_blake2b_u64(a, b, c, d) ==
    Bind(mix_u64(a, b), LAMBDA a1 :
    Bind(rotr64(xor_u64(d, a1), 32), LAMBDA d1 :
    Bind(mix_u64(c, d1), LAMBDA c1 :
    Bind(rotr64(xor_u64(b, c1), 24), LAMBDA b1 :
    Bind(mix_u64(a1, b1), LAMBDA a2 :
    Bind(rotr64(xor_u64(d1, a2), 16), LAMBDA d2 :
    Bind(mix_u64(c1, d2), LAMBDA c2 :
    Bind(rotr64(xor_u64(b1, c2), 63), LAMBDA b2 :
      <<a2, b2, c2, d2>>))))))))

\* g_blake2b! on the words at the positions q of v, written back
gb_at(v, q) ==
    Bind(g_blake2b_u64(v[q[1] + 1], v[q[2] + 1], v[q[3] + 1], v[q[4] + 1]),
         LAMBDA r :
           [v EXCEPT ![q[1] + 1] = r[1], ![q[2] + 1] = r[2],
                     ![q[3] + 1] = r[3], ![q[4] + 1] = r[4]])

\* p!(v0, .., v15) of argon2.rs: the eight g_blake2b! in their order
p_u64(v) ==
    Bind(gb_at(v, <<0, 4, 8, 12>>), LAMBDA v1 :
    Bind(gb_at(v1, <<1, 5, 9, 13>>), LAMBDA v2 :
    Bind(gb_at(v2, <<2, 6, 10, 14>>), LAMBDA v3 :
    Bind(gb_at(v3, <<3, 7, 11, 15>>), LAMBDA v4 :
    Bind(gb_at(v4, <<0, 5, 10, 15>>), LAMBDA v5 :
    Bind(gb_at(v5, <<1, 6, 11, 12>>), LAMBDA v6 :
    Bind(gb_at(v6, <<2, 7, 8, 13>>), LAMBDA v7 :
      gb_at(v7, <<3, 4, 9, 14>>))))))))

\* the u64 p_row(row, b) and p_col(col, b) of argon2.rs hand to p!
p_row_u64_at(row) == [k \in 1..16 |-> 16 * row + (k - 1)]

p_col_u64_at(col) ==
    [k \in 1..16 |-> 2 * col + 16 * ((k - 1) \div 2) + ((k - 1) % 2)]

\* p! on the u64 at the indices at of a block of 128 u64
p_u64_on(b, at) ==
    Bind(p_u64([k \in 1..16 |-> b[at[k] + 1]]), LAMBDA r :
      [i \in 1..Len(b) |->
          IF \E k \in 1..16 : at[k] + 1 = i
          THEN r[CHOOSE k \in 1..16 : at[k] + 1 = i]
          ELSE b[i]])

p_row_u64(row, b) == p_u64_on(b, p_row_u64_at(row))

p_col_u64(col, b) == p_u64_on(b, p_col_u64_at(col))

\* a Block of lib.rs, [u64x2; 64], seen as the 128 u64 it is made of, and back
as_u64(b) == [i \in 1..(2 * Len(b)) |-> b[(i + 1) \div 2][2 - (i % 2)]]

as_u64x2_block(w) == [i \in 1..(Len(w) \div 2) |-> u64x2(w[2 * i - 1], w[2 * i])]

(***************************************************************************)
(* p_row and p_col of the two files on one block of 128 u64                 *)
(***************************************************************************)
\* blocks of 128 u64: two without a pattern in their bytes, and all ones
PBlock(s) == [i \in 1..128 |-> [j \in 1..8 |-> (i * 37 + j * 11 + s) % 256]]

OnesBlock == [i \in 1..128 |-> [j \in 1..8 |-> 255]]

PBlocks == {PBlock(0), PBlock(101), OnesBlock}

InitP ==
    /\ HashIdle /\ api = NoApi /\ alpha = NoAlpha
    /\ \E op \in {"p_row", "p_col", "p_row_u64", "p_col_u64"},
          k \in 0..7, b \in PBlocks :
          codec = [op |-> op, pc |-> "call", k |-> k, b |-> b, res |-> b]

\* p_row(row, b) of lib.rs, b a block of octwords
PRow ==
    /\ codec.op = "p_row" /\ codec.pc = "call"
    /\ codec' = [codec EXCEPT !.pc = "ret",
                    !.res = as_u64(p_row(codec.k, as_u64x2_block(codec.b)))]
    /\ UNCHANGED <<hashVars, api, alpha>>

\* p_col(col, b) of lib.rs
PCol ==
    /\ codec.op = "p_col" /\ codec.pc = "call"
    /\ codec' = [codec EXCEPT !.pc = "ret",
                    !.res = as_u64(p_col(codec.k, as_u64x2_block(codec.b)))]
    /\ UNCHANGED <<hashVars, api, alpha>>

\* p_row(row, b) of argon2.rs, b a block of u64
PRowU64 ==
    /\ codec.op = "p_row_u64" /\ codec.pc = "call"
    /\ codec' = [codec EXCEPT !.pc = "ret", !.res = p_row_u64(codec.k, codec.b)]
    /\ UNCHANGED <<hashVars, api, alpha>>

\* p_col(col, b) of argon2.rs
PColU64 ==
    /\ codec.op = "p_col_u64" /\ codec.pc = "call"
    /\ codec' = [codec EXCEPT !.pc = "ret", !.res = p_col_u64(codec.k, codec.b)]
    /\ UNCHANGED <<hashVars, api, alpha>>

NextP ==
    \/ PRow
    \/ PCol
    \/ PRowU64
    \/ PColU64

SpecP == InitP /\ [][NextP]_vars

(***************************************************************************)
(* g and g_two of lib.rs on blocks of 64 octwords, statement by statement   *)
(***************************************************************************)
\* an assignment that keeps what d held: *d = *d ^ *l ^ *r
g_assign_into(d, l, r) == simd_xor(simd_xor(d, l), r)

\* *d = *l ^ *r: what d held is overwritten
g_assign(d, l, r) == simd_xor(l, r)

\* *d = *d ^ *l ^ *r
g_fold(d, l, r) == simd_xor(simd_xor(d, l), r)

\* *d = *d ^ *s
g_two_fold(d, s) == simd_xor(d, s)

\* a tmp that is the source again
g_two_tmp_src(dest, src) == src

\* let tmp: Block = *dest
g_two_tmp(dest, src) == dest

\* block::zero()
zero_block == [i \in 1..64 |-> u64x2(U64(0), U64(0))]

\* for row in 0..8 { p_row(row, dest) }, from row on
RECURSIVE p_rows(_, _)
p_rows(dest, row) ==
    IF row = 8 THEN dest
    ELSE Bind(p_row(row, dest), LAMBDA d : p_rows(d, row + 1))

\* for col in 0..8 { p_col(col, dest) }, from col on
RECURSIVE p_cols(_, _)
p_cols(dest, col) ==
    IF col = 8 THEN dest
    ELSE Bind(p_col(col, dest), LAMBDA d : p_cols(d, col + 1))

\* g(dest, lhs, rhs): the content of dest when g returns
g_block(dest, lhs, rhs) ==
    Bind([i \in 1..64 |-> g_assign(dest[i], lhs[i], rhs[i])], LAMBDA d0 :
    Bind(p_rows(d0, 0), LAMBDA d1 :
    Bind(p_cols(d1, 0), LAMBDA d2 :
      [i \in 1..64 |-> g_fold(d2[i], lhs[i], rhs[i])])))

\* g_two(dest, src): the content of dest when g_two returns
g_two_block(dest, src) ==
    Bind(p_rows(src, 0), LAMBDA d1 :
    Bind(p_cols(d1, 0), LAMBDA d2 :
    Bind([i \in 1..64 |-> g_two_fold(d2[i], src[i])], LAMBDA d3 :
    Bind(g_two_tmp(d3, src), LAMBDA tmp :
    Bind(p_rows(d3, 0), LAMBDA d4 :
    Bind(p_cols(d4, 0), LAMBDA d5 :
      [i \in 1..64 |-> g_two_fold(d5[i], tmp[i])]))))))

InitG ==
    /\ HashIdle /\ api = NoApi /\ alpha = NoAlpha
    /\ \/ \E dest \in {PBlock(0), OnesBlock}, rhs \in {PBlock(101), OnesBlock} :
             codec = [op |-> "g", pc |-> "assign", k |-> 0, sweep |-> 1,
                      dest |-> as_u64x2_block(dest),
                      lhs |-> as_u64x2_block(PBlock(7)),
                      rhs |-> as_u64x2_block(rhs),
                      tmp |-> <<>>,
                      arg |-> [dest |-> as_u64x2_block(dest),
                               lhs |-> as_u64x2_block(PBlock(7)),
                               rhs |-> as_u64x2_block(rhs)]]
       \/ \E dest \in {PBlock(0), OnesBlock} :
             codec = [op |-> "g_two", pc |-> "copy", k |-> 0, sweep |-> 1,
                      dest |-> as_u64x2_block(dest),
                      lhs |-> <<>>,
                      rhs |-> as_u64x2_block(PBlock(101)),
                      tmp |-> <<>>,
                      arg |-> [dest |-> as_u64x2_block(dest),
                               lhs |-> <<>>,
                               rhs |-> as_u64x2_block(PBlock(101))]]

\* the first loop of g
GAssign ==
    /\ codec.op = "g" /\ codec.pc = "assign"
    /\ codec' = [codec EXCEPT
                    !.pc = "rows",
                    !.dest = [i \in 1..64 |->
                                 g_assign(codec.dest[i], codec.lhs[i],
                                          codec.rhs[i])]]
    /\ UNCHANGED <<hashVars, api, alpha>>

\* *dest = *src, src being the field rhs
G2Copy ==
    /\ codec.op = "g_two" /\ codec.pc = "copy"
    /\ codec' = [codec EXCEPT !.pc = "rows", !.dest = codec.rhs]
    /\ UNCHANGED <<hashVars, api, alpha>>

\* p_row(row, dest), in g and in the two sweeps of g_two
GRow ==
    /\ codec.pc = "rows"
    /\ codec' = [codec EXCEPT
                    !.dest = p_row(codec.k, codec.dest),
                    !.k = IF codec.k = 7 THEN 0 ELSE codec.k + 1,
                    !.pc = IF codec.k = 7 THEN "cols" ELSE "rows"]
    /\ UNCHANGED <<hashVars, api, alpha>>

\* p_col(col, dest)
GCol ==
    /\ codec.pc = "cols"
    /\ codec' = [codec EXCEPT
                    !.dest = p_col(codec.k, codec.dest),
                    !.k = IF codec.k = 7 THEN 0 ELSE codec.k + 1,
                    !.pc = IF codec.k = 7 THEN "fold" ELSE "cols"]
    /\ UNCHANGED <<hashVars, api, alpha>>

\* the last loop of g
GFold ==
    /\ codec.op = "g" /\ codec.pc = "fold"
    /\ codec' = [codec EXCEPT
                    !.pc = "ret",
                    !.dest = [i \in 1..64 |->
                                 g_fold(codec.dest[i], codec.lhs[i],
                                        codec.rhs[i])]]
    /\ UNCHANGED <<hashVars, api, alpha>>

\* *d = *d ^ *s over src, then let tmp = *dest
G2FoldSrc ==
    /\ codec.op = "g_two" /\ codec.pc = "fold" /\ codec.sweep = 1
    /\ LET d == [i \in 1..64 |-> g_two_fold(codec.dest[i], codec.rhs[i])]
       IN  codec' = [codec EXCEPT !.pc = "rows", !.sweep = 2, !.dest = d,
                                  !.tmp = g_two_tmp(d, codec.rhs)]
    /\ UNCHANGED <<hashVars, api, alpha>>

\* *d = *d ^ *s over tmp
G2FoldTmp ==
    /\ codec.op = "g_two" /\ codec.pc = "fold" /\ codec.sweep = 2
    /\ codec' = [codec EXCEPT
                    !.pc = "ret",
                    !.dest = [i \in 1..64 |->
                                 g_two_fold(codec.dest[i], codec.tmp[i])]]
    /\ UNCHANGED <<hashVars, api, alpha>>

NextG ==
    \/ GAssign
    \/ G2Copy
    \/ GRow
    \/ GCol
    \/ GFold
    \/ G2FoldSrc
    \/ G2FoldTmp

SpecG == InitG /\ [][NextG]_vars

(***************************************************************************)
(* Gen2i on blocks of 64 octwords, as fill_slice drives it                  *)
(***************************************************************************)
\* ((n & 0xffffffff) as u32, (n >> 32) as u32), n a u64 of eight bytes
split_u64_bytes(n) == <<SubSeq(n, 1, 4), SubSeq(n, 5, 8)>>

\* g_two first, the counter afterwards
Gen2i_more_after(gen) ==
    [gen EXCEPT !.arg[4][1] = wrapping_add(@, U64(1)),
                !.pseudos = g_two_block(gen.pseudos, gen.arg)]

\* self.arg[3].0 += 1; g_two(&mut self.pseudos, &self.arg)
Gen2i_more_block(gen) ==
    Bind([gen.arg EXCEPT ![4][1] = wrapping_add(@, U64(1))], LAMBDA arg :
      [gen EXCEPT !.arg = arg, !.pseudos = g_two_block(gen.pseudos, arg)])

\* Gen2i::new: the three pairs of args go to the first three octwords of arg
Gen2i_new_block(start_at, pass_, lane, slice_, totblocks, totpasses) ==
    Gen2i_more_block(
        [arg |-> [zero_block EXCEPT
                     ![1] = u64x2(U64(pass_), U64(lane)),
                     ![2] = u64x2(U64(slice_), U64(totblocks)),
                     ![3] = u64x2(U64(totpasses), U64(Argon2i))],
         pseudos |-> zero_block,
         idx |-> start_at])

\* [rv |-> (j1, j2), gen |-> the generator afterwards]
Gen2i_nextj_block(gen) ==
    Bind((gen.idx + 1) % PER_KIB_U64, LAMBDA idx :
      [rv  |-> split_u64_bytes(as_u64(gen.pseudos)[gen.idx + 1]),
       gen |-> IF idx = 0 THEN Gen2i_more_block([gen EXCEPT !.idx = idx])
               ELSE [gen EXCEPT !.idx = idx]])

\* the longest slice the generator is driven over
MaxGenSliceLen == 130

\* (pass, lane, slice, lanes, passes) of the fill_slice that owns the generator
GenArgs == {<<1, 2, 3, 5, 4>>}

NoGen == [arg |-> <<>>, pseudos |-> <<>>, idx |-> 0]

InitGen ==
    /\ HashIdle /\ api = NoApi /\ alpha = NoAlpha
    /\ \E a \in GenArgs, offset \in {0, 2} :
          codec = [op |-> "gen2i", pc |-> "new", a |-> a, offset |-> offset,
                   lanelen |-> SLICES_PER_LANE * MaxGenSliceLen,
                   gen |-> NoGen, idx |-> offset, rv |-> <<>>]

\* let mut jgen = Gen2i::new(offset, pass, lane, slice, lanes * lanelen, passes)
GenNew ==
    /\ codec.op = "gen2i" /\ codec.pc = "new"
    /\ codec' = [codec EXCEPT
                    !.pc = "loop",
                    !.gen = Gen2i_new_block(codec.offset, codec.a[1], codec.a[2],
                                            codec.a[3],
                                            codec.a[4] * codec.lanelen,
                                            codec.a[5])]
    /\ UNCHANGED <<hashVars, api, alpha>>

\* one iteration of for idx in offset..slicelen: jgen.nextj()
GenNextJ ==
    /\ codec.op = "gen2i" /\ codec.pc \in {"loop", "next"}
    /\ codec.idx < codec.lanelen \div SLICES_PER_LANE
    /\ LET j == Gen2i_nextj_block(codec.gen)
       IN  codec' = [codec EXCEPT !.pc = "next", !.gen = j.gen, !.rv = j.rv,
                                  !.idx = codec.idx + 1]
    /\ UNCHANGED <<hashVars, api, alpha>>

NextGen ==
    \/ GenNew
    \/ GenNextJ

SpecGen == InitGen /\ [][NextGen]_vars

(***************************************************************************)
(* The octword operations called on their own                               *)
(***************************************************************************)
\* T0 and T1 of the tests of octword.rs, and the ends of the u64 range
T0 == u64x2(<<103, 69, 35, 1, 239, 190, 173, 222>>,
            <<50, 153, 190, 186, 16, 50, 254, 202>>)

T1 == u64x2(<<103, 69, 35, 1, 120, 5, 153, 9>>,
            <<72, 148, 232, 136, 169, 249, 40, 17>>)

OctInputs ==
    {T0, T1,
     u64x2(U64(0), U64(1)),
     u64x2(<<255, 255, 255, 255, 255, 255, 255, 255>>,
           <<0, 0, 0, 0, 0, 0, 0, 128>>),
     u64x2(<<255, 255, 255, 255, 0, 0, 0, 0>>,
           <<1, 0, 0, 128, 254, 255, 255, 255>>),
     u64x2(<<1, 2, 4, 8, 16, 32, 64, 128>>,
           <<129, 0, 0, 0, 0, 0, 0, 129>>)}

\* the rotations of g_blake2b and the one more that is a byte shuffle
RotateAmounts == {8, 16, 24, 32, 63}

InitOct ==
    /\ HashIdle /\ api = NoApi /\ alpha = NoAlpha
    /\ \/ \E a \in OctInputs, n \in RotateAmounts :
             codec = [op |-> "rotate_right", pc |-> "call", a |-> a, b |-> a,
                      n |-> n, res |-> a]
       \/ \E a \in OctInputs, b \in OctInputs :
             codec = [op |-> "lower_mult", pc |-> "call", a |-> a, b |-> b,
                      n |-> 0, res |-> a]

RotateRight ==
    /\ codec.op = "rotate_right" /\ codec.pc = "call"
    /\ codec' = [codec EXCEPT !.pc = "ret",
                              !.res = rotate_right(codec.a, codec.n)]
    /\ UNCHANGED <<hashVars, api, alpha>>

LowerMult ==
    /\ codec.op = "lower_mult" /\ codec.pc = "call"
    /\ codec' = [codec EXCEPT !.pc = "ret",
                              !.res = lower_mult(codec.a, codec.b)]
    /\ UNCHANGED <<hashVars, api, alpha>>

NextOct ==
    \/ RotateRight
    \/ LowerMult

SpecOct == InitOct /\ [][NextOct]_vars

(***************************************************************************)
(* Properties of the octword operations                                     *)
(***************************************************************************)
\* C29: rotate_right(n), for the byte shuffles 8, 16, 24, 32 and for the
\* shifts of 63, rotates each of the two lanes by n on its own; lower_mult
\* is, lane by lane, the product of the two low halves, a product that fits
\* 64 bits, and it is the same with its operands exchanged.
C29_OctwordLanes ==
    /\ (codec.op = "rotate_right" /\ codec.pc = "ret") =>
          codec.res = u64x2(rotr64(codec.a[1], codec.n),
                            rotr64(codec.a[2], codec.n))
    /\ (codec.op = "lower_mult" /\ codec.pc = "ret") =>
          /\ \A l \in 1..2 :
                /\ WMul(lower32(codec.a[l]), lower32(codec.b[l]))
                      = codec.res[l] \o <<0, 0, 0, 0, 0, 0, 0, 0>>
                /\ Len(codec.res[l]) = 8
          /\ codec.res = lower_mult(codec.b, codec.a)

\* T0.lower_mult(T1), as in test_lower_mult
C29_Witness ==
    /\ codec.op = "lower_mult" /\ codec.pc = "ret"
    /\ codec.a = T0 /\ codec.b = T1
    /\ codec.res = u64x2(<<113, 175, 250, 218, 102, 75, 1, 0>>, <<16, 254, 123, 27, 72, 234, 222, 99>>)


(***************************************************************************)
(* Properties of P                                                          *)
(***************************************************************************)
\* the same sweep in the other file
OtherP(op, k, b) ==
    IF op = "p_row" THEN p_row_u64(k, b)
    ELSE IF op = "p_col" THEN p_col_u64(k, b)
    ELSE IF op = "p_row_u64" THEN as_u64(p_row(k, as_u64x2_block(b)))
    ELSE as_u64(p_col(k, as_u64x2_block(b)))

\* C27: p! of lib.rs on eight octwords and p! of argon2.rs on the sixteen
\* u64 they are made of give the same sixteen words, and p_row and p_col of
\* the two files change the same words of a block in the same way;
\* cross_swap((v4, v5), (v6, v7)) is ((v7, v4), (v5, v6)) and cross_swap of
\* the second and the first of these gives back ((v4, v5), (v6, v7)).
C27_SameP ==
    codec.pc = "ret" =>
      /\ codec.res = OtherP(codec.op, codec.k, codec.b)
      /\ \A i \in 1..63 :
            LET x  == as_u64x2_block(codec.b)[i]
                y  == as_u64x2_block(codec.res)[i + 1]
                sw == cross_swap(x, y)
            IN  /\ sw = <<u64x2(y[2], x[1]), u64x2(x[2], y[1])>>
                /\ cross_swap(sw[2], sw[1]) = <<x, y>>

\* column 3 of the first block: u64 6 and 7 of each row have changed, u64 5
\* and 8 of no row have
C27_Witness ==
    /\ codec.op = "p_col" /\ codec.pc = "ret" /\ codec.k = 3
    /\ codec.b[1] = [j \in 1..8 |-> (37 + j * 11) % 256]
    /\ \A r \in 0..7 :
          /\ codec.res[16 * r + 7] # codec.b[16 * r + 7]
          /\ codec.res[16 * r + 8] # codec.b[16 * r + 8]
          /\ codec.res[16 * r + 6] = codec.b[16 * r + 6]
          /\ codec.res[16 * r + 9] = codec.b[16 * r + 9]

(***************************************************************************)
(* Properties of g and g_two                                                *)
(***************************************************************************)
\* a ^ b, block by block of 128 u64
XorBlocks(a, b) == [i \in 1..128 |-> xor_u64(a[i], b[i])]

\* P on the rows 0..7 of a block of 128 u64, in the formulation on u64
RECURSIVE QRows(_, _)
QRows(b, row) ==
    IF row = 8 THEN b
    ELSE Bind(p_row_u64(row, b), LAMBDA d : QRows(d, row + 1))

\* P on the columns 0..7
RECURSIVE QCols(_, _)
QCols(b, col) ==
    IF col = 8 THEN b
    ELSE Bind(p_col_u64(col, b), LAMBDA d : QCols(d, col + 1))

\* Q: P on each of the 8 rows, then on each of the 8 columns
Q(b) == Bind(QRows(b, 0), LAMBDA d : QCols(d, 0))

\* C25: g(dest, lhs, rhs) leaves Q(lhs ^ rhs) ^ lhs ^ rhs in dest, whatever
\* dest held before, and leaves lhs and rhs as they were.
C25_G ==
    (codec.op = "g" /\ codec.pc = "ret") =>
       /\ as_u64(codec.dest) =
             Bind(XorBlocks(as_u64(codec.arg.lhs), as_u64(codec.arg.rhs)),
                  LAMBDA x : XorBlocks(Q(x), x))
       /\ codec.dest = g_block(codec.arg.dest, codec.arg.lhs, codec.arg.rhs)
       /\ codec.lhs = codec.arg.lhs
       /\ codec.rhs = codec.arg.rhs

\* g has returned on a dest that held something else than lhs ^ rhs
C25_Witness ==
    /\ codec.op = "g" /\ codec.pc = "ret"
    /\ codec.arg.dest = as_u64x2_block(OnesBlock)
    /\ codec.arg.rhs = as_u64x2_block(PBlock(101))
    /\ codec.dest # codec.arg.dest
    /\ codec.dest[1] # simd_xor(codec.lhs[1], codec.rhs[1])

\* C26: g_two(dest, x) leaves G(0, G(0, x)) in dest, G the function g
\* computes and 0 the block of zeroes, whatever dest held before; x is left
\* as it was.
C26_GTwo ==
    (codec.op = "g_two" /\ codec.pc = "ret") =>
       /\ codec.dest =
             Bind(g_block(zero_block, zero_block, codec.arg.rhs),
                  LAMBDA y : g_block(zero_block, zero_block, y))
       /\ codec.dest = g_two_block(codec.arg.dest, codec.arg.rhs)
       /\ codec.rhs = codec.arg.rhs

\* g_two has returned on a dest that held something else than x
C26_Witness ==
    /\ codec.op = "g_two" /\ codec.pc = "ret" /\ codec.sweep = 2
    /\ codec.arg.dest = as_u64x2_block(OnesBlock)
    /\ codec.dest # codec.arg.dest
    /\ codec.dest # codec.tmp

(***************************************************************************)
(* Properties of Gen2i                                                      *)
(***************************************************************************)
\* A_c: the block of zeroes with its first seven u64 set
ArgBlock(a, lanelen, c) ==
    as_u64x2_block(
        [i \in 1..128 |->
            IF i <= 7
            THEN U64(<<a[1], a[2], a[3], a[4] * lanelen, a[5], 1, c>>[i])
            ELSE U64(0)])

\* G2(A_c) for the arguments and the counters the generator is driven over
G2Table ==
    [a \in GenArgs |->
        [c \in 1..2 |->
            as_u64(g_two_block(zero_block,
                               ArgBlock(a, SLICES_PER_LANE * MaxGenSliceLen, c)))]]

\* C28: the pair handed out for slice index i is (low 32 bits, high 32 bits)
\* of u64 number i mod 128 of G2(A_c), c = i / 128 + 1, whether the generator
\* was created at offset 0 or at offset 2; the counter of the generator is
\* the number of G2 computed so far, the first being 1, and pseudos is
\* G2 of the argument block with that counter.
C28_Gen2i ==
    /\ (codec.op = "gen2i" /\ codec.pc = "next") =>
          LET i == codec.idx - 1
              w == G2Table[codec.a][(i \div 128) + 1][(i % 128) + 1]
          IN  codec.rv = <<SubSeq(w, 1, 4), SubSeq(w, 5, 8)>>
    /\ (codec.op = "gen2i" /\ codec.pc \in {"loop", "next"}) =>
          /\ codec.gen.arg =
                ArgBlock(codec.a, codec.lanelen, (codec.idx \div 128) + 1)
          /\ as_u64(codec.gen.pseudos) =
                G2Table[codec.a][(codec.idx \div 128) + 1]
          /\ codec.gen.idx = codec.idx % 128

\* slice index 129, served from the second G2 by a generator created at
\* offset 2
C28_Witness ==
    /\ codec.op = "gen2i" /\ codec.pc = "next"
    /\ codec.offset = 2 /\ codec.idx = 130
    /\ codec.gen.arg[4][1] = U64(2)
    /\ codec.rv = split_u64_bytes(as_u64(codec.gen.pseudos)[2])
    /\ codec.rv # split_u64_bytes(G2Table[codec.a][1][2])

====
